---- MODULE Spec2Model ----
(***************************************************************************)
(* The X-Ray tracing engine (src/xray_sdk/xray.py): one XRay tracer with    *)
(* its active-trace slot, in-memory trace table and open-step slot, the     *)
(* decorator's wrapper around instrumented calls, add_reasoning, end_trace  *)
(* and the file-per-trace store it writes.                                  *)
(*                                                                         *)
(* The tracer is driven by one thread of control.  Instrumented calls nest  *)
(* on `stack`; the body of the innermost call (or the top-level program     *)
(* when the stack is empty) may call any tracer operation.                  *)
(*                                                                         *)
(* Encoding.  Python's None-or-value slots are sequences of length <= 1.    *)
(* A dict is a function on its key set.  A text is a sequence of            *)
(* characters.  Durations are counted in thousandths of a millisecond, so   *)
(* "rounded to 2 decimal places" is a multiple of 10.  A Python value is a  *)
(* record [k, n, s, items]: its kind, number, string and elements.          *)
(*                                                                         *)
(* A trace id is the clock's second and 8 hex digits of a random uuid; the  *)
(* tracer never looks for an existing entry, so the digits are a free       *)
(* choice from a small set and may repeat.  A step carries the number of     *)
(* the wrapper invocation that made it (`call`) in place of its random id.  *)
(* Every operation counts against a budget of MaxOps operations.            *)
(*                                                                         *)
(* The dashboard (src/dashboard/server.py) serves the same store over HTTP: *)
(* the page, the list of traces, one trace by id, and the submit of a       *)
(* record.  A stored file is the JSON text of a record (<<>> when a write   *)
(* stopped part way); json_dump and json_load convert between Python        *)
(* values and JSON documents.  A request is handled in one step, and a      *)
(* request that ends in an uncaught exception gets no response (status 0).  *)
(* At most MaxRequests requests are made.                                   *)
(*                                                                         *)
(* Four more specifications look at one part each: SpecCycles runs cycles    *)
(* of start_trace, one call, end_trace; SpecSanitize applies                 *)
(* _make_json_safe to a value; SpecRace takes end_trace's write to the       *)
(* store in two steps with requests served in between; SpecThreads runs the  *)
(* wrapper's statements of two threads in every order.                       *)
(***************************************************************************)
EXTENDS Integers, Sequences, FiniteSets, TLC

VARIABLES
    current_trace_id,   \* XRay.current_trace_id : <<>> or <<id>>
    traces,             \* XRay.traces : id -> trace dict
    current_step,       \* XRay._current_step : <<>> or <<XRayStep>>
    files,              \* the store: file name -> <<record>> or <<>> (unparseable)
    stack,              \* wrapper invocations in progress, innermost last
    last,               \* history: the last operation, its arguments and outcome
    now,                \* the clock, in seconds
    nCalls,             \* history: wrapper invocations so far
    nReason,            \* history: add_reasoning calls so far
    nStarted,           \* history: start_trace calls so far
    nOps,               \* history: operations so far
    saved,              \* history: how the last _save_to_file of the tracer went
    reply,              \* the dashboard's last request and the response it got
    nRequests           \* history: requests so far

vars == <<current_trace_id, traces, current_step, files, stack, last, now,
          nCalls, nReason, nStarted, nOps, saved, reply, nRequests>>

\* ------------------------------------------------------------------ bounds
MaxCalls == 2
MaxReason == 2
MaxTraces == 2
MaxDepth == 2
MaxTime == 0
MaxOps == 6
MaxRequests == 3
MaxLen == 2

\* ------------------------------------------------------------ Python values
Val(k, n, s, items) == [k |-> k, n |-> n, s |-> s, items |-> items]
NoneV == Val("none", 0, "", <<>>)
IntV(n) == Val("int", n, "", <<>>)
\* the text s; with n > 0, the first n characters of the rendering named s
StrV(s, n) == Val("str", n, s, <<>>)
ListV(items) == Val("list", 0, "", items)
TupleV(items) == Val("tuple", 0, "", items)
\* an instance of class s whose str() is n characters long
ObjV(s, n) == Val("obj", n, s, <<>>)
\* a list that contains itself
CyclicV == Val("cyclic", 0, "", <<>>)
\* the float n + 0.5, and the booleans
FloatV(n) == Val("float", n, "", <<>>)
BoolV(b) == Val("bool", IF b THEN 1 ELSE 0, "", <<>>)
\* a dict: its items, each <<key, value>>, in insertion order
DictV(items) == Val("dict", 0, "", items)
\* an instance of class s whose __str__ raises
MuteV(s) == Val("mute", 0, s, <<>>)

EmptyMap == [x \in {} |-> NoneV]
Put(m, k, v) == [x \in (DOMAIN m) \cup {k} |-> IF x = k THEN v ELSE m[x]]

Min(a, b) == IF a < b THEN a ELSE b

RECURSIVE SumSeq(_)
SumSeq(q) == IF q = <<>> THEN 0 ELSE q[1] + SumSeq(Tail(q))

\* round(x, 2) on a duration in thousandths of a millisecond (ties to even)
Round2(x) ==
    LET q == x \div 10
        r == x % 10
    IN  IF r < 5 THEN 10 * q
        ELSE IF r > 5 THEN 10 * (q + 1)
        ELSE IF q % 2 = 0 THEN 10 * q ELSE 10 * (q + 1)

\* --------------------------------------------------------------- sanitizer
StrLimit == 150
RecursionMsg == "maximum recursion depth exceeded"
AttrMsg == "'NoneType' object has no attribute"

StrFailMsg == "no str"
TypeName == "Object of type "

\* an outcome of a conversion: the value, or the message of the error raised
Safe(v) == [ok |-> TRUE, val |-> v, msg |-> ""]
Fails(msg) == [ok |-> FALSE, val |-> NoneV, msg |-> msg]
Unsafe == Fails(RecursionMsg)
\* the first failure of a sequence of outcomes
FirstFailure(parts) == parts[CHOOSE i \in 1..Len(parts) :
                               ~parts[i].ok /\ \A j \in 1..(i - 1) : parts[j].ok]

\* str(k) of a dict key
Str(k) ==
    CASE k.k = "none" -> Safe(StrV("None", 0))
      [] k.k = "int" -> Safe(StrV(ToString(k.n), 0))
      [] k.k = "str" -> Safe(k)
      [] k.k = "float" -> Safe(StrV(ToString(k.n) \o ".5", 0))
      [] k.k = "bool" -> Safe(StrV(IF k.n = 1 THEN "True" ELSE "False", 0))
      [] k.k = "mute" -> Fails(StrFailMsg)
      [] OTHER -> Safe(StrV(k.s, k.n))

\* d[k] = v on a dict's items: a key already there keeps its place
SetItem(items, k, v) ==
    IF \E i \in 1..Len(items) : items[i][1] = k
    THEN [i \in 1..Len(items) |-> IF items[i][1] = k THEN <<k, v>> ELSE items[i]]
    ELSE Append(items, <<k, v>>)

\* the dict built from <<key, value>> pairs in order
RECURSIVE DictOf(_)
DictOf(pairs) ==
    IF pairs = <<>> THEN <<>>
    ELSE LET n == Len(pairs)
         IN  SetItem(DictOf(SubSeq(pairs, 1, n - 1)), pairs[n][1], pairs[n][2])

\* Faulty variant: the rendering is stored whole
Render_Uncut(value) ==
    IF value.k = "mute" THEN Safe(StrV(TypeName \o value.s, 0))
    ELSE Safe(StrV(value.s, value.n))

\* str(value)[:150], or the placeholder when str raises
Render(value) ==
    IF value.k = "mute" THEN Safe(StrV(TypeName \o value.s, 0))
    ELSE Safe(StrV(value.s, Min(value.n, StrLimit)))

RECURSIVE _make_json_safe(_)
_make_json_safe(value) ==
    IF value.k = "none" THEN Safe(NoneV)
    ELSE IF value.k \in {"str", "int", "float", "bool"} THEN Safe(value)
    ELSE IF value.k \in {"list", "tuple"} THEN
        LET parts == [i \in 1..Len(value.items) |-> _make_json_safe(value.items[i])]
        IN  IF \E i \in 1..Len(parts) : ~parts[i].ok THEN FirstFailure(parts)
            ELSE Safe(ListV([i \in 1..Len(parts) |-> parts[i].val]))
    ELSE IF value.k = "dict" THEN
        \* {str(k): self._make_json_safe(v) for k, v in value.items()}
        LET n == Len(value.items)
            parts == [i \in 1..(2 * n) |->
                        IF i % 2 = 1 THEN Str(value.items[(i + 1) \div 2][1])
                        ELSE _make_json_safe(value.items[i \div 2][2])]
        IN  IF \E i \in 1..(2 * n) : ~parts[i].ok THEN FirstFailure(parts)
            ELSE Safe(DictV(DictOf([i \in 1..n |->
                                      <<parts[2 * i - 1].val, parts[2 * i].val>>])))
    ELSE IF value.k = "cyclic" THEN Unsafe      \* recursion never ends: RecursionError
    ELSE Render(value)

\* type(x).__name__ followed by " object"
ObjectLabel(v) ==
    CASE v.k = "none" -> "NoneType object"
      [] v.k = "int" -> "int object"
      [] v.k = "float" -> "float object"
      [] v.k = "bool" -> "bool object"
      [] v.k = "str" -> "str object"
      [] v.k \in {"list", "cyclic"} -> "list object"
      [] v.k = "tuple" -> "tuple object"
      [] v.k \in {"obj", "mute"} /\ v.s = "Selector" -> "Selector object"
      [] v.k = "dict" -> "dict object"
      [] OTHER -> "object object"

ArgKeys == <<"arg_0", "arg_1", "arg_2">>

\* Python passes and stores objects by reference.  SharedV(v) is the caller's own
\* list or dict v held as it is; every other value held is a copy or immutable.
SharedV(v) == Val("shared", 0, "", <<v>>)
Mark == IntV(99)

\* func(*args, **kwargs): what the body leaves in a list or dict it was given; it
\* appends to every list and sets a key in every dict, nested ones included
RECURSIVE Touched(_)
Touched(v) ==
    IF v.k = "list"
    THEN ListV(Append([i \in 1..Len(v.items) |-> Touched(v.items[i])], Mark))
    ELSE IF v.k = "dict"
    THEN DictV(Append([i \in 1..Len(v.items) |->
                          <<v.items[i][1], Touched(v.items[i][2])>>],
                      <<StrV("seen", 0), Mark>>))
    ELSE v

\* what reading a held value gives once the body has run: a copy is as it was
\* made, the caller's own object is as the body left it
RECURSIVE Seen(_)
Seen(v) ==
    IF v.k = "shared" THEN Touched(v.items[1])
    ELSE IF v.k = "list" THEN ListV([i \in 1..Len(v.items) |-> Seen(v.items[i])])
    ELSE IF v.k = "dict"
    THEN DictV([i \in 1..Len(v.items) |-> <<v.items[i][1], Seen(v.items[i][2])>>])
    ELSE v

\* Faulty variant: a list or dict argument is stored as it is, not as a copy
_capture_input_KeepsArguments(args, kwargs) ==
    LET Held(v) == IF v.k \in {"list", "dict"} THEN SharedV(v)
                   ELSE _make_json_safe(v).val
        withSelf == IF Len(args) > 0
                    THEN Put(EmptyMap, "self", StrV(ObjectLabel(args[1]), 0))
                    ELSE EmptyMap
        pos == {i \in 1..Len(args) : i > 1}
        keys == (DOMAIN withSelf) \cup {ArgKeys[i] : i \in pos} \cup (DOMAIN kwargs)
        ok == /\ \A i \in pos : _make_json_safe(args[i]).ok
              /\ \A k \in DOMAIN kwargs : _make_json_safe(kwargs[k]).ok
        data == [k \in keys |->
                    IF k \in DOMAIN kwargs THEN Held(kwargs[k])
                    ELSE IF \E i \in pos : ArgKeys[i] = k
                         THEN Held(args[CHOOSE i \in pos : ArgKeys[i] = k])
                         ELSE withSelf[k]]
    IN  [ok |-> ok, val |-> IF ok THEN data ELSE EmptyMap,
         msg |-> IF ok THEN "" ELSE RecursionMsg]

\* every object has __class__, so a first positional argument is always taken for self
_capture_input(args, kwargs) ==
    LET withSelf == IF Len(args) > 0
                    THEN Put(EmptyMap, "self", StrV(ObjectLabel(args[1]), 0))
                    ELSE EmptyMap
        pos == {i \in 1..Len(args) : i > 1}
        keys == (DOMAIN withSelf) \cup {ArgKeys[i] : i \in pos} \cup (DOMAIN kwargs)
        ok == /\ \A i \in pos : _make_json_safe(args[i]).ok
              /\ \A k \in DOMAIN kwargs : _make_json_safe(kwargs[k]).ok
        data == [k \in keys |->
                    IF k \in DOMAIN kwargs THEN _make_json_safe(kwargs[k]).val
                    ELSE IF \E i \in pos : ArgKeys[i] = k
                         THEN _make_json_safe(args[CHOOSE i \in pos : ArgKeys[i] = k]).val
                         ELSE withSelf[k]]
        bad == {i \in pos : ~_make_json_safe(args[i]).ok}
        msg == IF ok THEN ""
               ELSE IF bad # {}
                    THEN _make_json_safe(args[CHOOSE i \in bad : \A j \in bad : i <= j]).msg
                    ELSE _make_json_safe(kwargs[CHOOSE k \in DOMAIN kwargs :
                                                   ~_make_json_safe(kwargs[k]).ok]).msg
    IN  [ok |-> ok, val |-> IF ok THEN data ELSE EmptyMap, msg |-> msg]

\* ------------------------------------------------------------------- steps
NL == <<"\n">>

Outcome(kind, val, msg) == [kind |-> kind, val |-> val, msg |-> msg]
NoOutcome == Outcome("none", NoneV, "")
Returned(v) == Outcome("ret", v, "")
Raised(m) == Outcome("exc", NoneV, m)          \* an Exception with str(e) = m
Interrupted == Outcome("base", NoneV, "KeyboardInterrupt")

\* XRayStep.__init__; `call` stands for the object's identity (its id and timestamp)
XRayStep(call, name, step_type) ==
    [call |-> call, name |-> name, step_type |-> step_type,
     input |-> EmptyMap, output |-> EmptyMap, reasoning |-> <<>>,
     duration_ms |-> 0, success |-> TRUE, error |-> <<>>]

\* XRayStep.end, given the elapsed time
StepEnd(step, elapsed) == [step EXCEPT !.duration_ms = elapsed]

\* XRayStep.add_reasoning
StepAddReasoning(step, reasoning) == [step EXCEPT !.reasoning = reasoning]

\* XRayStep.to_dict, called once the body has run: "input": self.input reads
\* whatever the input holds at that moment
to_dict(step) ==
    [step EXCEPT !.input = [k \in DOMAIN step.input |-> Seen(step.input[k])],
                 !.duration_ms = Round2(step.duration_ms)]

\* ---------------------------------------------------------------- wrapper
\* Faulty variant: the except clause records the failure and forgets to re-raise
WrapperExcept_Swallows(slot, e) ==
    IF slot = <<>>
    THEN [slot |-> slot, obs |-> Raised(AttrMsg)]
    ELSE [slot |-> <<[slot[1] EXCEPT !.success = FALSE, !.error = <<e.msg>>]>>,
          obs |-> Returned(NoneV)]

\* Faulty variant: the except clause records the message and leaves success as it was
WrapperExcept_KeepsSuccess(slot, e) ==
    IF slot = <<>>
    THEN [slot |-> slot, obs |-> Raised(AttrMsg)]
    ELSE [slot |-> <<[slot[1] EXCEPT !.error = <<e.msg>>]>>,
          obs |-> e]

\* the except clause: record the failure on the open step and re-raise
WrapperExcept(slot, e) ==
    IF slot = <<>>
    THEN [slot |-> slot, obs |-> Raised(AttrMsg)]
    ELSE [slot |-> <<[slot[1] EXCEPT !.success = FALSE, !.error = <<e.msg>>]>>,
          obs |-> e]

\* the try block after func(*args, **kwargs) produced `out`
WrapperTry(slot, out) ==
    IF out.kind = "ret" THEN
        LET safe == _make_json_safe(out.val)
        IN  IF ~safe.ok THEN WrapperExcept(slot, Raised(safe.msg))
            ELSE IF slot = <<>> THEN WrapperExcept(slot, Raised(AttrMsg))
            ELSE [slot |-> <<[slot[1] EXCEPT !.output = Put(EmptyMap, "result", safe.val),
                                             !.success = TRUE]>>,
                  obs |-> out]
    ELSE IF out.kind = "exc" THEN WrapperExcept(slot, out)
    ELSE [slot |-> slot, obs |-> out]

\* Faulty variant: the step is appended on the success path only
AppendStep_OnlyOnSuccess(tr, cur, step) ==
    IF cur # <<>> /\ cur[1] \in DOMAIN tr /\ step.success
    THEN [tr EXCEPT ![cur[1]].steps = Append(@, to_dict(step))]
    ELSE tr

\* Faulty variant: the step is put in front of the earlier ones
AppendStep_InFront(tr, cur, step) ==
    IF cur # <<>> /\ cur[1] \in DOMAIN tr
    THEN [tr EXCEPT ![cur[1]].steps = <<to_dict(step)>> \o @]
    ELSE tr

\* the trace table after the finally clause appended the step
AppendStep(tr, cur, step) ==
    IF cur # <<>> /\ cur[1] \in DOMAIN tr
    THEN [tr EXCEPT ![cur[1]].steps = Append(@, to_dict(step))]
    ELSE tr

\* Faulty variant: the finally clause leaves the step in the open-step slot
WrapperFinally_KeepsSlot(slot, obs, cur, tr, elapsed) ==
    IF slot = <<>>
    THEN [slot |-> <<>>, traces |-> tr, obs |-> Raised(AttrMsg)]
    ELSE [slot |-> slot, traces |-> AppendStep(tr, cur, StepEnd(slot[1], elapsed)),
          obs |-> obs]

\* the finally clause, entered with `obs` on its way to the caller
WrapperFinally(slot, obs, cur, tr, elapsed) ==
    IF slot = <<>>
    THEN [slot |-> <<>>, traces |-> tr, obs |-> Raised(AttrMsg)]
    ELSE [slot |-> <<>>, traces |-> AppendStep(tr, cur, StepEnd(slot[1], elapsed)),
          obs |-> obs]

\* ------------------------------------------------------------ add_reasoning
\* Faulty variant: the remark goes to the first step of the trace
AppendToFirst(steps, reasoning) ==
    [steps EXCEPT ![1].reasoning = @ \o NL \o reasoning]

\* Faulty variant: the text takes the place of the reasoning on record
AppendToLast_Overwrites(steps, reasoning) ==
    [steps EXCEPT ![Len(steps)].reasoning = reasoning]

\* Faulty variant: the text is appended to every step of the trace
AppendToLast_AllSteps(steps, reasoning) ==
    [i \in 1..Len(steps) |-> [steps[i] EXCEPT !.reasoning = @ \o NL \o reasoning]]

\* steps[-1]["reasoning"] += "\n" + reasoning (to_dict always writes the key)
AppendToLast(steps, reasoning) ==
    [steps EXCEPT ![Len(steps)].reasoning = @ \o NL \o reasoning]

\* Faulty variant: the text goes to the last step of every trace, active or not
AttachToClosed_AnyTrace(tr, cur, reasoning) ==
    [id \in DOMAIN tr |->
        IF tr[id].steps # <<>>
        THEN [tr[id] EXCEPT !.steps = AppendToLast(@, reasoning)]
        ELSE tr[id]]

\* add_reasoning when no step is open: the trace table afterwards
AttachToClosed(tr, cur, reasoning) ==
    IF cur # <<>> /\ tr[cur[1]].steps # <<>>
    THEN [tr EXCEPT ![cur[1]].steps = AppendToLast(@, reasoning)]
    ELSE tr

\* ---------------------------------------------------------------- end_trace
Durations(steps) == [i \in 1..Len(steps) |-> steps[i].duration_ms]

\* Faulty variant: only the steps that succeeded are counted
Finalize_CountsSuccesses(trace) ==
    [trace EXCEPT !.ended = TRUE,
                  !.total_steps = Cardinality({i \in 1..Len(trace.steps) : trace.steps[i].success}),
                  !.total_duration_ms = Round2(SumSeq(Durations(trace.steps)))]

\* end_trace's stamping: end_time, total_steps, total_duration_ms
Finalize(trace) ==
    [trace EXCEPT !.ended = TRUE,
                  !.total_steps = Len(trace.steps),
                  !.total_duration_ms = Round2(SumSeq(Durations(trace.steps)))]

\* --------------------------------------------------------------------- json
\* A JSON text is <<document>>, or <<>> when it does not parse (malformed or cut
\* short).  A document is [kind, fields]: an object with its members, or an array,
\* string, number or null, whose content no handler looks at.  Inside an object,
\* texts and numbers are written and read back as they are; a step's input and
\* output values change kind: None <-> null, int <-> number, str <-> string,
\* list <-> array, and anything else cannot be written.
NotJsonMsg == "is not JSON serializable"

RECURSIVE json_value(_)
json_value(v) ==
    IF v.k = "none" THEN Safe([v EXCEPT !.k = "null"])
    ELSE IF v.k = "int" THEN Safe([v EXCEPT !.k = "number"])
    ELSE IF v.k = "float" THEN Safe([v EXCEPT !.k = "real"])
    ELSE IF v.k = "bool" THEN Safe([v EXCEPT !.k = "boolean"])
    ELSE IF v.k = "str" THEN Safe([v EXCEPT !.k = "string"])
    ELSE IF v.k = "list" THEN
        LET parts == [i \in 1..Len(v.items) |-> json_value(v.items[i])]
        IN  IF \E i \in 1..Len(parts) : ~parts[i].ok THEN Fails(NotJsonMsg)
            ELSE Safe([v EXCEPT !.k = "array",
                                !.items = [i \in 1..Len(parts) |-> parts[i].val]])
    ELSE IF v.k = "dict" THEN
        \* a str key is a member's name; the model writes no other key
        LET parts == [i \in 1..Len(v.items) |-> json_value(v.items[i][2])]
        IN  IF \E i \in 1..Len(parts) : ~parts[i].ok \/ v.items[i][1].k # "str"
            THEN Fails(NotJsonMsg)
            ELSE Safe([v EXCEPT !.k = "object",
                                !.items = [i \in 1..Len(parts) |->
                                              <<[v.items[i][1] EXCEPT !.k = "string"],
                                                parts[i].val>>]])
    ELSE Fails(NotJsonMsg)                       \* TypeError / ValueError

RECURSIVE python_value(_)
python_value(j) ==
    IF j.k = "null" THEN [j EXCEPT !.k = "none"]
    ELSE IF j.k = "number" THEN [j EXCEPT !.k = "int"]
    ELSE IF j.k = "real" THEN [j EXCEPT !.k = "float"]
    ELSE IF j.k = "boolean" THEN [j EXCEPT !.k = "bool"]
    ELSE IF j.k = "string" THEN [j EXCEPT !.k = "str"]
    ELSE IF j.k = "object" THEN
        [j EXCEPT !.k = "dict",
                  !.items = [i \in 1..Len(j.items) |->
                                <<[j.items[i][1] EXCEPT !.k = "str"],
                                  python_value(j.items[i][2])>>]]
    ELSE [j EXCEPT !.k = "list",
                   !.items = [i \in 1..Len(j.items) |-> python_value(j.items[i])]]

MapOk(m) == \A k \in DOMAIN m : json_value(m[k]).ok
MapToJson(m) == [k \in DOMAIN m |-> json_value(m[k]).val]
MapToPython(m) == [k \in DOMAIN m |-> python_value(m[k])]

StepsOk(steps) ==
    \A i \in 1..Len(steps) : MapOk(steps[i].input) /\ MapOk(steps[i].output)
StepsToJson(steps) ==
    [i \in 1..Len(steps) |-> [steps[i] EXCEPT !.input = MapToJson(@),
                                              !.output = MapToJson(@)]]
StepsToPython(steps) ==
    [i \in 1..Len(steps) |-> [steps[i] EXCEPT !.input = MapToPython(@),
                                              !.output = MapToPython(@)]]

PyDict(fields) == [kind |-> "dict", fields |-> fields]
JsonObject(fields) == [kind |-> "object", fields |-> fields]

\* json.dump / json.dumps of a Python value: [ok, text]
json_dump(obj) ==
    IF obj.kind = "dict" THEN
        IF "steps" \in DOMAIN obj.fields
        THEN IF StepsOk(obj.fields.steps)
             THEN [ok |-> TRUE,
                   text |-> <<JsonObject([obj.fields EXCEPT !.steps = StepsToJson(@)])>>]
             ELSE [ok |-> FALSE, text |-> <<>>]
        ELSE [ok |-> TRUE, text |-> <<JsonObject(obj.fields)>>]
    ELSE [ok |-> TRUE, text |-> <<[obj EXCEPT !.kind = "array"]>>]

\* json.load / json.loads of a text: [ok, val]; ok is false for a JSONDecodeError
json_load(text) ==
    IF text = <<>> THEN [ok |-> FALSE, val |-> PyDict(EmptyMap)]
    ELSE LET doc == text[1]
         IN  IF doc.kind = "object" THEN
                 IF "steps" \in DOMAIN doc.fields
                 THEN [ok |-> TRUE,
                       val |-> PyDict([doc.fields EXCEPT !.steps = StepsToPython(@)])]
                 ELSE [ok |-> TRUE, val |-> PyDict(doc.fields)]
             ELSE [ok |-> TRUE, val |-> [doc EXCEPT !.kind = "list"]]

\* ------------------------------------------------------------------- store
\* f"trace_{trace_id}.json"
FileName(trace_id) == "trace_" \o trace_id \o ".json"

\* _save_to_file: the write succeeds, open() fails, or the write stops part way
SaveOutcomes == {"written", "open_failed", "partial"}
_save_to_file(store, trace_id, tr, how) ==
    IF trace_id \notin DOMAIN tr \/ how = "open_failed" THEN store
    ELSE LET dumped == json_dump(PyDict(tr[trace_id]))
         IN  IF how = "written" /\ dumped.ok
             THEN Put(store, FileName(trace_id), dumped.text)
             ELSE Put(store, FileName(trace_id), <<>>)

\* --------------------------------------------------------------- dashboard
StartsWith(s, p) == Len(s) >= Len(p) /\ SubSeq(s, 1, Len(p)) = p
EndsWith(s, p) == Len(s) >= Len(p) /\ SubSeq(s, Len(s) - Len(p) + 1, Len(s)) = p

\* the part of s before the first character that is in stops
RECURSIVE Before(_, _)
Before(s, stops) ==
    IF s = "" \/ SubSeq(s, 1, 1) \in stops THEN ""
    ELSE SubSeq(s, 1, 1) \o Before(SubSeq(s, 2, Len(s)), stops)

\* urllib.parse.urlparse(path).path: the query and the fragment are cut off, and
\* nothing is percent-decoded
UrlPath(path) == Before(path, {"?", "#"})

\* path.split('/')[-1]
RECURSIVE LastSegment(_)
LastSegment(s) ==
    IF s = "" \/ SubSeq(s, Len(s), Len(s)) = "/" THEN ""
    ELSE LastSegment(SubSeq(s, 1, Len(s) - 1)) \o SubSeq(s, Len(s), Len(s))

\* s.replace(sub, '')
RECURSIVE Remove(_, _)
Remove(s, sub) ==
    IF Len(s) < Len(sub) THEN s
    ELSE IF StartsWith(s, sub) THEN Remove(SubSeq(s, Len(sub) + 1, Len(s)), sub)
    ELSE SubSeq(s, 1, 1) \o Remove(SubSeq(s, 2, Len(s)), sub)

\* a start_time is a text, which stands here as the clock reading it renders, the
\* empty text as NoTime; NullTime is a start_time that is not a text (null)
NoTime == -1
NullTime == -2
IsText(t) == t >= NoTime

Request(method, path, body, length) ==
    [method |-> method, path |-> path, body |-> body, length |-> length]

\* status 0: the handler raised, and the connection is closed with nothing sent
Response(status, kind, body) == [status |-> status, kind |-> kind, body |-> body]
NoResponse == Response(0, "none", <<>>)
send_error(code) == Response(code, "error", <<>>)

_show_dashboard == Response(200, "html", <<>>)

\* json.dumps(data, default=str) after the 200 and the headers
_send_json_response(data) == Response(200, "json", json_dump(data).text)

\* data.get(k, default)
Get(data, k, default) == IF k \in DOMAIN data THEN data[k] ELSE default

Summary(file, data) ==
    [id |-> Get(data, "id", Remove(Remove(file, "trace_"), ".json")),
     name |-> Get(data, "name", "Trace"),
     start_time |-> Get(data, "start_time", NoTime),
     total_steps |-> Get(data, "total_steps", 0),
     total_duration_ms |-> Get(data, "total_duration_ms", 0)]

IsTraceFile(file) == StartsWith(file, "trace_") /\ EndsWith(file, ".json")

\* the loop over os.listdir('.'): a file that does not load, or whose content has
\* no get(), is skipped
RECURSIVE ReadAll(_, _)
ReadAll(store, listing) ==
    IF listing = <<>> THEN <<>>
    ELSE LET file == Head(listing)
             loaded == json_load(store[file])
             rest == ReadAll(store, Tail(listing))
         IN  IF IsTraceFile(file) /\ loaded.ok /\ loaded.val.kind = "dict"
             THEN <<Summary(file, loaded.val.fields)>> \o rest
             ELSE rest

\* list.sort(key=start_time, reverse=True): stable, latest first
RECURSIVE InsertDesc(_, _)
InsertDesc(q, e) ==
    IF q = <<>> THEN <<e>>
    ELSE IF Head(q).start_time >= e.start_time THEN <<Head(q)>> \o InsertDesc(Tail(q), e)
    ELSE <<e>> \o q

RECURSIVE SortDesc(_)
SortDesc(q) ==
    IF q = <<>> THEN <<>>
    ELSE InsertDesc(SortDesc(SubSeq(q, 1, Len(q) - 1)), q[Len(q)])

\* comparing a key that is not a text with another key raises TypeError
Sortable(q) == Len(q) < 2 \/ \A i \in 1..Len(q) : IsText(q[i].start_time)

_send_trace_list(store, listing) ==
    LET trace_files == ReadAll(store, listing)
    IN  IF Sortable(trace_files)
        THEN _send_json_response([kind |-> "list", fields |-> SortDesc(trace_files)])
        ELSE NoResponse

\* Faulty variant: the file is opened without the test that it exists
_send_single_trace_OpensBlindly(trace_id, store) ==
    LET file_name == FileName(trace_id)
        loaded == IF file_name \in DOMAIN store THEN json_load(store[file_name])
                  ELSE json_load(<<>>)
    IN  IF loaded.ok THEN _send_json_response(loaded.val) ELSE NoResponse

\* json.load is outside any try: a file that does not parse makes the handler raise
_send_single_trace(trace_id, store) ==
    LET file_name == FileName(trace_id)
    IN  IF file_name \in DOMAIN store
        THEN LET loaded == json_load(store[file_name])
             IN  IF loaded.ok THEN _send_json_response(loaded.val) ELSE NoResponse
        ELSE send_error(404)

do_GET(req, store, listing) ==
    LET path == UrlPath(req.path)
    IN  IF path = "/" THEN _show_dashboard
        ELSE IF path = "/api/traces" THEN _send_trace_list(store, listing)
        ELSE IF StartsWith(path, "/api/trace/")
             THEN _send_single_trace(LastSegment(path), store)
             ELSE send_error(404)

Saved(store, response) == [store |-> store, response |-> response]

\* Faulty variant: the id is read with get(), so a record without id is stored
_save_new_trace_NoIdNeeded(req, store, how) ==
    LET loaded == json_load(req.body)
    IN  IF ~req.length \/ ~loaded.ok THEN Saved(store, send_error(500))
        ELSE IF loaded.val.kind # "dict" THEN Saved(store, send_error(500))
        ELSE LET trace == loaded.val
                 id == Get(trace.fields, "id", "None")
                 file_name == FileName(id)
             IN  IF how = "open_failed" THEN Saved(store, send_error(500))
                 ELSE IF how = "partial"
                      THEN Saved(Put(store, file_name, <<>>), send_error(500))
                 ELSE Saved(Put(store, file_name, json_dump(trace).text),
                            Response(201, "json", <<JsonObject([ok |-> TRUE, id |-> id])>>))

\* every failure inside the try is answered with 500
_save_new_trace(req, store, how) ==
    LET loaded == json_load(req.body)
    IN  IF ~req.length \/ ~loaded.ok THEN Saved(store, send_error(500))
        ELSE IF loaded.val.kind # "dict" \/ "id" \notin DOMAIN loaded.val.fields
             THEN Saved(store, send_error(500))
        ELSE LET trace == loaded.val
                 file_name == FileName(trace.fields.id)
             IN  IF how = "open_failed" THEN Saved(store, send_error(500))
                 ELSE IF how = "partial"
                      THEN Saved(Put(store, file_name, <<>>), send_error(500))
                 ELSE Saved(Put(store, file_name, json_dump(trace).text),
                            Response(201, "json",
                                     <<JsonObject([ok |-> TRUE, id |-> trace.fields.id])>>))

do_POST(req, store, how) ==
    IF req.path = "/api/traces" THEN _save_new_trace(req, store, how)
    ELSE Saved(store, send_error(404))

\* BaseHTTPRequestHandler answers a method that has no do_ method with 501
handle_one_request(req, store, listing, how) ==
    IF req.method = "GET" THEN Saved(store, do_GET(req, store, listing))
    ELSE IF req.method = "POST" THEN do_POST(req, store, how)
    ELSE Saved(store, send_error(501))

\* a request, when it came, the store it found and the response it got
Reply(req, at, found, response) ==
    [req |-> req, at |-> at, found |-> found, response |-> response]
NoReply == Reply(Request("", "", <<>>, FALSE), 0, EmptyMap, NoResponse)

\* ------------------------------------------------------------------ inputs
TraceNames == {"demo"}
\* the remarks the program makes, in order: the code never looks inside a text, so
\* distinct one-character texts stand for all texts
Remarks == <<"a", "b", "c", "d">>
Texts == {<<Remarks[nReason + 1]>>}
Sids == {"3d3ace80", "873f75e0"}
NoKw == EmptyMap
\* the instrumented functions: whether the function is a method (its receiver is
\* then the first of the positional arguments the wrapper gets), the call's
\* arguments, what the function does when it finishes (returns a value, raises an
\* Exception, is interrupted by a BaseException) and how long the call takes
Func(name, step_type, bound, args, kwargs, out, elapsed) ==
    [name |-> name, step_type |-> step_type, bound |-> bound, args |-> args,
     kwargs |-> kwargs, out |-> out, elapsed |-> elapsed]
Calls ==
    { Func("Step A", "x", FALSE, <<IntV(5), StrV("q", 0)>>, NoKw, Returned(IntV(42)), 16),
      Func("Step B", "y", TRUE, <<ObjV("Selector", 200), IntV(7)>>,
           Put(NoKw, "limit", DictV(<<<<IntV(10), MuteV("Selector")>>>>)),
           Raised("boom"), 4),
      Func("Step C", "x", FALSE, <<IntV(1), CyclicV>>, NoKw, Returned(NoneV), 4),
      Func("Step D", "y", FALSE, <<>>, NoKw, Returned(CyclicV), 4),
      Func("Step E", "x", FALSE, <<>>, NoKw, Interrupted, 16),
      Func("Step F", "y", FALSE, <<IntV(0), ListV(<<ListV(<<IntV(1)>>), IntV(2)>>)>>, NoKw,
           Returned(ListV(<<ObjV("Selector", 200), IntV(7)>>)), 4) }

\* f"trace_{timestamp}_{short_id}"
\* what the dashboard's clients send: records to submit (two with the same id, one
\* whose id has a character that ends a URL's path, one whose start_time is null,
\* one without id, one that is an array, and one that is not JSON) and paths
Bodies ==
    { <<JsonObject([id |-> "t1", name |-> "demo", steps |-> <<>>])>>,
      <<JsonObject([id |-> "t1", name |-> "second", steps |-> <<>>])>>,
      <<JsonObject([id |-> "a?b", name |-> "odd"])>>,
      <<JsonObject([id |-> "t2", name |-> "late", start_time |-> NullTime])>>,
      <<JsonObject([name |-> "anon"])>>,
      <<[kind |-> "array", fields |-> EmptyMap]>>,
      <<>> }
FixedPaths == {"/", "/api/traces", "/api/traces?limit=5", "/nope",
               "/api/trace/t1", "/api/trace/a?b"}
PostRequests ==
    {Request("POST", "/api/traces", body, TRUE) : body \in Bodies}
        \cup {Request("POST", "/api/traces", <<JsonObject([id |-> "t3"])>>, FALSE),
              Request("POST", "/api/trace/t1", <<JsonObject([id |-> "t3"])>>, TRUE)}
OtherMethods == {"PUT"}

TraceId(ts, sid) == "trace_" \o ToString(ts) \o "_" \o sid
NoId == <<>>

Event(op, call, text, produced, observed, ret) ==
    [op |-> op, call |-> call, text |-> text, produced |-> produced,
     observed |-> observed, ret |-> ret]

Frame(call, func) == [call |-> call, func |-> func, inner |-> FALSE, notes |-> <<>>]

\* the innermost call in progress has made a call that touches the open-step slot
MarkInner(st) == IF st = <<>> THEN st ELSE [st EXCEPT ![Len(st)].inner = TRUE]

\* -------------------------------------------------------------------- Init
Init ==
    /\ current_trace_id = <<>>
    /\ traces = EmptyMap
    /\ current_step = <<>>
    /\ files = EmptyMap
    /\ stack = <<>>
    /\ last = Event("init", 0, <<>>, NoOutcome, NoOutcome, NoId)
    /\ now = 0
    /\ nCalls = 0
    /\ nReason = 0
    /\ nStarted = 0
    /\ nOps = 0
    /\ saved = <<>>
    /\ reply = NoReply
    /\ nRequests = 0

\* ----------------------------------------------------------------- actions
NewTrace(id, trace_name, t) ==
    [id |-> id, name |-> trace_name, start_time |-> t, steps |-> <<>>,
     ended |-> FALSE, total_steps |-> 0, total_duration_ms |-> 0]

start_trace ==
    /\ nStarted < MaxTraces
    /\ \E trace_name \in TraceNames, t \in now..MaxTime, sid \in Sids :
         LET id == TraceId(t, sid)
         IN  /\ now' = t
             /\ current_trace_id' = <<id>>
             /\ traces' = Put(traces, id, NewTrace(id, trace_name, t))
             /\ last' = Event("start_trace", 0, <<>>, NoOutcome, NoOutcome, <<id>>)
    /\ nStarted' = nStarted + 1
    /\ nOps' = nOps + 1
    /\ UNCHANGED <<current_step, files, stack, nCalls, nReason, saved, reply, nRequests>>

\* wrapper, up to the call of func: open the step and capture the input
WrapperOpen ==
    /\ nCalls < MaxCalls
    /\ Len(stack) < MaxDepth
    /\ \E c \in Calls :
         LET step == XRayStep(nCalls + 1, c.name, c.step_type)
             input == _capture_input(c.args, c.kwargs)
         IN  IF input.ok
             THEN /\ current_step' = <<[step EXCEPT !.input = input.val]>>
                  /\ stack' = Append(MarkInner(stack), Frame(nCalls + 1, c))
                  /\ last' = Event("open", nCalls + 1, <<>>, NoOutcome, NoOutcome, NoId)
             ELSE /\ current_step' = <<step>>
                  /\ stack' = MarkInner(stack)
                  /\ last' = Event("call", nCalls + 1, <<>>, NoOutcome,
                                   Raised(input.msg), NoId)
    /\ nCalls' = nCalls + 1
    /\ nOps' = nOps + 1
    /\ UNCHANGED <<current_trace_id, traces, files, now, nReason, nStarted, saved, reply,
                   nRequests>>

\* wrapper, from the outcome of func to the wrapper's own return or raise
WrapperClose(kind) ==
    /\ stack # <<>>
    /\ stack[Len(stack)].func.out.kind = kind
    /\ LET top == stack[Len(stack)]
           tried == WrapperTry(current_step, top.func.out)
           done == WrapperFinally(tried.slot, tried.obs, current_trace_id, traces,
                                  top.func.elapsed)
       IN  /\ current_step' = done.slot
           /\ traces' = done.traces
           /\ stack' = SubSeq(stack, 1, Len(stack) - 1)
           /\ last' = Event("call", top.call, <<>>, top.func.out, done.obs, NoId)
    /\ nOps' = nOps + 1
    /\ UNCHANGED <<current_trace_id, files, now, nCalls, nReason, nStarted, saved, reply,
                   nRequests>>

WrapperReturn == WrapperClose("ret")
WrapperRaise == WrapperClose("exc")
WrapperInterrupt == WrapperClose("base")

add_reasoning ==
    /\ nReason < MaxReason
    /\ \E reasoning \in Texts :
         /\ last' = Event("add_reasoning", 0, reasoning, NoOutcome, NoOutcome, NoId)
         /\ IF current_step # <<>>
            THEN /\ current_step' = <<StepAddReasoning(current_step[1], reasoning)>>
                 /\ stack' = IF stack # <<>> /\ stack[Len(stack)].call = current_step[1].call
                             THEN [stack EXCEPT ![Len(stack)].notes = Append(@, reasoning)]
                             ELSE stack
                 /\ UNCHANGED traces
            ELSE /\ traces' = AttachToClosed(traces, current_trace_id, reasoning)
                 /\ UNCHANGED <<current_step, stack>>
    /\ nReason' = nReason + 1
    /\ nOps' = nOps + 1
    /\ UNCHANGED <<current_trace_id, files, now, nCalls, nStarted, saved, reply, nRequests>>

\* Faulty variant: the slots are reset before the test for an active trace
EndTraceIdle_ResetsSlot ==
    /\ last' = Event("end_trace", 0, <<>>, NoOutcome, NoOutcome, NoId)
    /\ current_step' = <<>>
    /\ UNCHANGED <<current_trace_id, traces, files, stack, saved>>

\* end_trace with no active trace
EndTraceIdle ==
    /\ last' = Event("end_trace", 0, <<>>, NoOutcome, NoOutcome, NoId)
    /\ UNCHANGED <<current_trace_id, traces, current_step, files, stack, saved>>

\* Faulty variant: the open-step slot is reset, the active-trace slot is not
EndTraceActive_StaysActive ==
    \E how \in SaveOutcomes :
        LET case_id == current_trace_id[1]
            tr == [traces EXCEPT ![case_id] = Finalize(@)]
        IN  /\ traces' = tr
            /\ files' = _save_to_file(files, case_id, tr, how)
            /\ saved' = <<[id |-> case_id, how |-> how]>>
            /\ current_step' = <<>>
            /\ stack' = MarkInner(stack)
            /\ last' = Event("end_trace", 0, <<>>, NoOutcome, NoOutcome, <<case_id>>)
            /\ UNCHANGED current_trace_id

\* Faulty variant: a failed write raises out of end_trace before the slots are reset
EndTraceActive_SaveRaises ==
    \E how \in SaveOutcomes :
        LET case_id == current_trace_id[1]
            tr == [traces EXCEPT ![case_id] = Finalize(@)]
        IN  /\ traces' = tr
            /\ files' = _save_to_file(files, case_id, tr, how)
            /\ saved' = <<[id |-> case_id, how |-> how]>>
            /\ stack' = MarkInner(stack)
            /\ IF how = "written"
               THEN /\ current_trace_id' = <<>>
                    /\ current_step' = <<>>
                    /\ last' = Event("end_trace", 0, <<>>, NoOutcome, NoOutcome, <<case_id>>)
               ELSE /\ UNCHANGED <<current_trace_id, current_step>>
                    /\ last' = Event("end_trace", 0, <<>>, NoOutcome, Raised("io"), NoId)

\* end_trace with an active trace
EndTraceActive ==
    \E how \in SaveOutcomes :
        LET case_id == current_trace_id[1]
            tr == [traces EXCEPT ![case_id] = Finalize(@)]
        IN  /\ traces' = tr
            /\ files' = _save_to_file(files, case_id, tr, how)
            /\ saved' = <<[id |-> case_id, how |-> how]>>
            /\ current_trace_id' = <<>>
            /\ current_step' = <<>>
            /\ stack' = MarkInner(stack)
            /\ last' = Event("end_trace", 0, <<>>, NoOutcome, NoOutcome, <<case_id>>)

end_trace ==
    /\ IF current_trace_id = <<>> THEN EndTraceIdle ELSE EndTraceActive
    /\ nOps' = nOps + 1
    /\ UNCHANGED <<now, nCalls, nReason, nStarted, reply, nRequests>>

\* the program: any operation at any time, MaxOps operations in all
Budget == nOps < MaxOps

Next ==
    \/ Budget /\ start_trace
    \/ Budget /\ WrapperOpen
    \/ Budget /\ WrapperReturn
    \/ Budget /\ WrapperRaise
    \/ Budget /\ WrapperInterrupt
    \/ Budget /\ add_reasoning
    \/ Budget /\ end_trace

Spec == Init /\ [][Next]_vars

\* the program of back-to-back cycles: start_trace, one instrumented call, end_trace
CycleStart == last.op \in {"init", "end_trace"} /\ start_trace
CycleCall == last.op = "start_trace" /\ WrapperOpen
CycleEnd == last.op = "call" /\ last.produced # NoOutcome /\ stack = <<>> /\ end_trace

NextCycles ==
    \/ CycleStart
    \/ CycleCall
    \/ WrapperReturn
    \/ WrapperRaise
    \/ WrapperInterrupt
    \/ CycleEnd

SpecCycles == Init /\ [][NextCycles]_vars

\* ------------------------------------------------------ dashboard requests
\* os.listdir('.') gives the file names in an order of its own
Listings(store) ==
    LET names == DOMAIN store
        n == Cardinality(names)
    IN  {q \in [1..n -> names] : \A i, j \in 1..n : q[i] = q[j] => i = j}

Answer(req, listing, how) ==
    LET done == handle_one_request(req, files, listing, how)
    IN  /\ files' = done.store
        /\ reply' = Reply(req, nOps, files, done.response)
        /\ nRequests' = nRequests + 1
        /\ UNCHANGED <<current_trace_id, traces, current_step, stack, last, now,
                       nCalls, nReason, nStarted, nOps, saved>>

GetRequest ==
    /\ nRequests < MaxRequests
    /\ \E path \in FixedPaths \cup {"/api/trace/" \o id : id \in DOMAIN traces} :
          \E listing \in IF UrlPath(path) = "/api/traces" THEN Listings(files) ELSE {<<>>} :
              Answer(Request("GET", path, <<>>, FALSE), listing, "written")

PostRequest ==
    /\ nRequests < MaxRequests
    /\ \E req \in PostRequests, how \in SaveOutcomes : Answer(req, <<>>, how)

OtherRequest ==
    /\ nRequests < MaxRequests
    /\ \E method \in OtherMethods :
          Answer(Request(method, "/api/traces", <<>>, FALSE), <<>>, "written")

\* one cycle of the tracer, with the dashboard answering requests before and
\* after it
Idle == last.op \in {"init", "end_trace"}
FirstCycleStart == nStarted = 0 /\ CycleStart

NextService ==
    \/ FirstCycleStart
    \/ CycleCall
    \/ WrapperReturn
    \/ WrapperRaise
    \/ WrapperInterrupt
    \/ CycleEnd
    \/ Idle /\ GetRequest
    \/ Idle /\ PostRequest
    \/ Idle /\ OtherRequest

SpecService == Init /\ [][NextService]_vars

\* ------------------------------------------------- a save seen by a reader
\* The tracer writes its records from its own process while the dashboard reads
\* them: end_trace is taken in two steps, with requests served in between.
\* end_trace up to open(filename, 'w'), which leaves the file empty; last.text is
\* the text the file held before
SaveBegins ==
    /\ last.op = "call" /\ last.produced # NoOutcome /\ stack = <<>>
    /\ current_trace_id # <<>>
    /\ LET case_id == current_trace_id[1]
           file_name == FileName(case_id)
       IN  /\ traces' = [traces EXCEPT ![case_id] = Finalize(@)]
           /\ files' = Put(files, file_name, <<>>)
           /\ saved' = <<[id |-> case_id, how |-> "writing"]>>
           /\ last' = Event("saving", 0,
                            IF file_name \in DOMAIN files THEN files[file_name] ELSE <<>>,
                            NoOutcome, NoOutcome, <<case_id>>)
    /\ nOps' = nOps + 1
    /\ UNCHANGED <<current_trace_id, current_step, stack, now, nCalls, nReason, nStarted,
                   reply, nRequests>>

\* json.dump and the close of the file, then the reset of the slots and the return
SaveEnds ==
    /\ last.op = "saving"
    /\ LET case_id == current_trace_id[1]
       IN  /\ files' = _save_to_file(files, case_id, traces, "written")
           /\ saved' = <<[id |-> case_id, how |-> "written"]>>
           /\ last' = Event("end_trace", 0, <<>>, NoOutcome, NoOutcome, <<case_id>>)
    /\ current_trace_id' = <<>>
    /\ current_step' = <<>>
    /\ nOps' = nOps + 1
    /\ UNCHANGED <<traces, stack, now, nCalls, nReason, nStarted, reply, nRequests>>

Writing == last.op = "saving"

NextRace ==
    \/ CycleStart
    \/ CycleCall
    \/ WrapperReturn
    \/ WrapperRaise
    \/ WrapperInterrupt
    \/ SaveBegins
    \/ SaveEnds
    \/ Idle /\ GetRequest
    \/ Writing /\ GetRequest

SpecRace == Init /\ [][NextRace]_vars

\* ------------------------------------------------- two threads, one tracer
\* xray is one object for the whole process, and the wrapper reaches the open
\* step through self._current_step at every statement.  Two threads run one
\* instrumented call each inside one trace; a thread can be suspended between
\* any two statements of the wrapper.  stack[t] is the frame of thread t: pc is
\* the statement it is at, obs what its caller got.
Threads == {1, 2}
ThreadFrame(call, func) ==
    [call |-> call, func |-> func, inner |-> FALSE, notes |-> <<>>,
     pc |-> "start", obs |-> NoOutcome]
At(t, pc) == Len(stack) = 2 /\ stack[t].pc = pc
Goes(t, pc, obs) == [stack EXCEPT ![t].pc = pc, ![t].obs = obs]
ThreadVars == <<current_trace_id, files, last, now, nCalls, nReason, nStarted, nOps, saved,
                reply, nRequests>>

Fork ==
    /\ last.op = "start_trace" /\ stack = <<>>
    /\ \E c1, c2 \in Calls : stack' = <<ThreadFrame(1, c1), ThreadFrame(2, c2)>>
    /\ nCalls' = nCalls + 2
    /\ last' = Event("fork", 0, <<>>, NoOutcome, NoOutcome, NoId)
    /\ UNCHANGED <<current_trace_id, traces, current_step, files, now, nReason, nStarted,
                   nOps, saved, reply, nRequests>>

\* self._current_step = XRayStep(name, step_type)
ThreadOpen(t) ==
    /\ At(t, "start")
    /\ current_step' = <<XRayStep(stack[t].call, stack[t].func.name, stack[t].func.step_type)>>
    /\ stack' = Goes(t, "capture", NoOutcome)
    /\ UNCHANGED traces /\ UNCHANGED ThreadVars

\* self._current_step.input = self._capture_input(args, kwargs), before the try
ThreadCapture(t) ==
    /\ At(t, "capture")
    /\ LET input == _capture_input(stack[t].func.args, stack[t].func.kwargs)
       IN  IF ~input.ok
           THEN stack' = Goes(t, "done", Raised(input.msg)) /\ UNCHANGED current_step
           ELSE IF current_step = <<>>
           THEN stack' = Goes(t, "done", Raised(AttrMsg)) /\ UNCHANGED current_step
           ELSE /\ current_step' = <<[current_step[1] EXCEPT !.input = input.val]>>
                /\ stack' = Goes(t, "call", NoOutcome)
    /\ UNCHANGED traces /\ UNCHANGED ThreadVars

\* func(*args, **kwargs) runs
ThreadCall(t) ==
    /\ At(t, "call")
    /\ stack' = Goes(t, "record", NoOutcome)
    /\ UNCHANGED <<traces, current_step>> /\ UNCHANGED ThreadVars

\* the rest of the try block, or the except clause
ThreadRecord(t) ==
    /\ At(t, "record")
    /\ LET tried == WrapperTry(current_step, stack[t].func.out)
       IN  /\ current_step' = tried.slot
           /\ stack' = Goes(t, "finally", tried.obs)
    /\ UNCHANGED traces /\ UNCHANGED ThreadVars

\* finally: self._current_step.end() and the append to the active trace
ThreadAppend(t) ==
    /\ At(t, "finally")
    /\ IF current_step = <<>>
       THEN stack' = Goes(t, "done", Raised(AttrMsg)) /\ UNCHANGED <<traces, current_step>>
       ELSE LET step == StepEnd(current_step[1], stack[t].func.elapsed)
            IN  /\ current_step' = <<step>>
                /\ traces' = AppendStep(traces, current_trace_id, step)
                /\ stack' = Goes(t, "clear", stack[t].obs)
    /\ UNCHANGED ThreadVars

\* finally: self._show_step_info(self._current_step); self._current_step = None
ThreadClear(t) ==
    /\ At(t, "clear")
    /\ IF current_step = <<>>
       THEN stack' = Goes(t, "done", Raised(AttrMsg)) /\ UNCHANGED current_step
       ELSE current_step' = <<>> /\ stack' = Goes(t, "done", stack[t].obs)
    /\ UNCHANGED traces /\ UNCHANGED ThreadVars

Joined == Len(stack) = 2 /\ \A t \in Threads : stack[t].pc = "done"

NextThreads ==
    \/ FirstCycleStart
    \/ Fork
    \/ \E t \in Threads : ThreadOpen(t)
    \/ \E t \in Threads : ThreadCapture(t)
    \/ \E t \in Threads : ThreadCall(t)
    \/ \E t \in Threads : ThreadRecord(t)
    \/ \E t \in Threads : ThreadAppend(t)
    \/ \E t \in Threads : ThreadClear(t)
    \/ Joined /\ last.op = "fork" /\ end_trace

SpecThreads == Init /\ [][NextThreads]_vars

\* ---------------------------------------------------------- sanitize alone
\* the values handed to _make_json_safe: scalars, objects whose rendering is
\* shorter than, as long as and longer than the limit, an object whose rendering
\* fails, a list that contains itself, and lists, tuples and dicts of at most
\* MaxLen of them
Atoms ==
    {NoneV, IntV(7), FloatV(1), BoolV(TRUE), StrV("q", 0), ObjV("Selector", 100),
     ObjV("Selector", StrLimit), ObjV("Selector", 200), MuteV("Selector"), CyclicV}
Elements ==
    {NoneV, IntV(7), ObjV("Selector", 200), MuteV("Selector"), CyclicV, ListV(<<IntV(7)>>)}
KeyValues == {IntV(1), StrV("1", 0), NoneV, FloatV(1), MuteV("Selector")}
ItemValues == {IntV(7), ObjV("Selector", 200), TupleV(<<MuteV("Selector")>>)}
Seqs(S) == UNION {[1..m -> S] : m \in 0..MaxLen}
Items ==
    {q \in Seqs(KeyValues \X ItemValues) :
        \A i, j \in 1..Len(q) : q[i][1] = q[j][1] => i = j}
Values ==
    Atoms \cup {ListV(q) : q \in Seqs(Elements)}
          \cup {TupleV(q) : q \in Seqs({IntV(7), ObjV("Selector", 200)})}
          \cup {DictV(q) : q \in Items}

InitSanitize ==
    /\ current_trace_id = <<>>
    /\ traces = EmptyMap
    /\ current_step = <<>>
    /\ files = EmptyMap
    /\ stack = <<>>
    /\ \E value \in Values :
          last = Event("value", 0, <<>>, Returned(value), NoOutcome, NoId)
    /\ now = 0
    /\ nCalls = 0
    /\ nReason = 0
    /\ nStarted = 0
    /\ nOps = 0
    /\ saved = <<>>
    /\ reply = NoReply
    /\ nRequests = 0

\* xray._make_json_safe(value): what the caller gets
Sanitize ==
    /\ last.op = "value"
    /\ LET safe == _make_json_safe(last.produced.val)
       IN  last' = Event("sanitize", 0, <<>>, last.produced,
                         IF safe.ok THEN Returned(safe.val) ELSE Raised(safe.msg), NoId)
    /\ nOps' = nOps + 1
    /\ UNCHANGED <<current_trace_id, traces, current_step, files, stack, now, nCalls,
                   nReason, nStarted, saved, reply, nRequests>>

SpecSanitize == InitSanitize /\ [][Sanitize]_vars

\* ------------------------------------------------------------- vocabulary
IsPrefix(p, q) == Len(p) <= Len(q) /\ SubSeq(q, 1, Len(p)) = p
IsSuffix(p, q) == Len(p) <= Len(q) /\ SubSeq(q, Len(q) - Len(p) + 1, Len(q)) = p

Top == stack[Len(stack)]
LastOf(q) == q[Len(q)]
ActiveSteps == traces[current_trace_id[1]].steps

\* this step is a wrapper returning or raising to its caller
Closing == stack # <<>> /\ Len(stack') = Len(stack) - 1
\* ... of a call that is not nested in another, made no instrumented call and no
\* end_trace of its own, and ends while a trace is active
ClosingPlain == Closing /\ Len(stack) = 1 /\ ~Top.inner /\ current_trace_id # <<>>
\* the step record that this step appended to the active trace
Recorded == LastOf(traces'[current_trace_id[1]].steps)

\* ------------------------------------------------------------------ claims

\* C1: two add_reasoning calls while the same step is open leave, in the step
\* recorded at close, the first text, a line break, then the second text.
C1_SecondReasoningAppends ==
    [][(Closing /\ ~Top.inner /\ current_trace_id # <<>> /\ Len(Top.notes) = 2)
        => Recorded.reasoning = Top.notes[1] \o NL \o Top.notes[2]]_vars

\* C2: the caller of an instrumented call observes exactly what the wrapped call
\* produced, in every tracer state; the wrapper raises no error of its own.
C2_WrapperTransparent == last.op = "call" => last.observed = last.produced

AllSteps == {<<id, i>> : id \in DOMAIN traces, i \in 1..MaxCalls}
StepAt(p) == traces[p[1]].steps[p[2]]
HasStep(p) == p[2] <= Len(traces[p[1]].steps)

C5_AttachesToLastClosed ==
    [][(nReason' = nReason + 1 /\ current_step = <<>> /\ current_trace_id # <<>>
          /\ ActiveSteps # <<>>)
        => LET old == ActiveSteps
               new == traces'[current_trace_id[1]].steps
               n == Len(old)
           IN  /\ Len(new) = n
               /\ \A i \in 1..(n - 1) : new[i] = old[i]
               /\ new[n] = [old[n] EXCEPT !.reasoning = new[n].reasoning]
               /\ IsPrefix(old[n].reasoning, new[n].reasoning)
               /\ IsSuffix(last'.text, new[n].reasoning)
               /\ Len(new[n].reasoning) > Len(old[n].reasoning)
               /\ DOMAIN traces' = DOMAIN traces
               /\ \A id \in DOMAIN traces :
                     id # current_trace_id[1] => traces'[id] = traces[id]
               /\ current_step' = <<>>]_vars

C5_Witness ==
    /\ last.op = "add_reasoning" /\ current_step = <<>> /\ current_trace_id # <<>>
    /\ Len(ActiveSteps) = 2
    /\ IsSuffix(last.text, ActiveSteps[2].reasoning)
    /\ ActiveSteps[1].reasoning = <<>>

\* the record that reading the stored file f back gives
Stored(f) == json_load(files[f]).val.fields

TotalsHold(r) ==
    /\ r.total_steps = Len(r.steps)
    /\ r.total_duration_ms = Round2(SumSeq(Durations(r.steps)))

\* C6: every trace finalized by end_trace has total_steps equal to the number of
\* its step records and total_duration_ms equal to the sum of their recorded
\* duration_ms rounded to 2 decimal places, in memory and in the stored record.
C6_TotalsMatchSteps ==
    /\ \A id \in DOMAIN traces : traces[id].ended => TotalsHold(traces[id])
    /\ \A id \in DOMAIN files :
          files[id] # <<>> => (Stored(id).ended /\ TotalsHold(Stored(id)))

C6_Witness ==
    \E id \in DOMAIN traces :
        /\ FileName(id) \in DOMAIN files /\ files[FileName(id)] # <<>>
        /\ Stored(FileName(id)) = traces[id]
        /\ traces[id].ended /\ traces[id].total_steps = 2
        /\ traces[id].total_duration_ms = 20

\* C7: a finalized trace's in-memory record is changed by no later operation,
\* and the steps of an active trace never get fewer.
C7_FrozenAfterFinalize ==
    [][/\ \A id \in DOMAIN traces :
             traces[id].ended => (id \in DOMAIN traces' /\ traces'[id] = traces[id])
       /\ (current_trace_id # <<>>
             => Len(traces'[current_trace_id[1]].steps) >= Len(ActiveSteps))]_vars

\* Every start_trace so far drew an id that was not in the trace table.
IdsFresh == Cardinality(DOMAIN traces) = nStarted

\* The records stay frozen in every step that does not reuse a trace id.
FrozenWhileIdsFresh ==
    [][IdsFresh'
        => \A id \in DOMAIN traces :
              traces[id].ended => (id \in DOMAIN traces' /\ traces'[id] = traces[id])]_vars

\* C8: steps are kept in the order in which their calls completed: a trace's steps
\* grow only when a wrapper closes, by one record put after all earlier records,
\* which stay in place and in order.
C8_AppendOnlyInOrder ==
    [][\A id \in DOMAIN traces :
          LET old == traces[id].steps
              new == traces'[id].steps
          IN  /\ (Len(new) > Len(old)) => (Closing /\ Len(new) = Len(old) + 1)
              /\ Closing => IsPrefix(old, new)]_vars

C8_Witness ==
    /\ last.op = "call" /\ current_trace_id # <<>>
    /\ Len(ActiveSteps) = 2
    /\ ActiveSteps[2].call = last.call
    /\ ActiveSteps[1].call < ActiveSteps[2].call

StepCalls(id) == {traces[id].steps[i].call : i \in 1..Len(traces[id].steps)}

\* C9: back-to-back start_trace, instrumented call, end_trace cycles give one
\* trace per cycle, each under its own id and holding only its own cycle's step
\* (a call that returned 42 as output {"result": 42}), in memory and in the store.
C9_CyclesIndependent ==
    /\ Cardinality(DOMAIN traces) = nStarted
    /\ \A id \in DOMAIN traces :
          /\ Len(traces[id].steps) <= 1
          /\ \A other \in DOMAIN traces :
                other # id => StepCalls(id) \cap StepCalls(other) = {}
          /\ \A i \in 1..Len(traces[id].steps) :
                traces[id].steps[i].name = "Step A"
                    => traces[id].steps[i].output = Put(EmptyMap, "result", IntV(42))
          /\ traces[id].ended => traces[id].total_steps = Len(traces[id].steps)
    /\ \A f \in DOMAIN files :
          files[f] # <<>> => \E id \in DOMAIN traces :
                                /\ f = FileName(id) /\ traces[id].ended
                                /\ Stored(f) = traces[id]

\* The cycles are independent in every state reached without reusing an id.
CyclesIndependentWhileIdsFresh == IdsFresh => C9_CyclesIndependent

\* C10: end_trace with no active trace returns None and changes neither the trace
\* table, the open-step slot nor the store.
C10_IdleEndTraceIsNoOp ==
    [][(last'.op = "end_trace" /\ nOps' = nOps + 1 /\ current_trace_id = <<>>)
        => /\ last'.ret = <<>>
           /\ UNCHANGED <<current_trace_id, traces, current_step, files>>]_vars

C10_Witness ==
    /\ last.op = "end_trace" /\ last.ret = <<>>
    /\ current_step # <<>>
    /\ \E id \in DOMAIN traces :
          /\ traces[id].ended
          /\ FileName(id) \in DOMAIN files /\ files[FileName(id)] # <<>>

\* C11: end_trace with an active trace X returns X's id, stamps the trace as ended
\* and empties the active-trace slot and the open-step slot; from then on, until
\* start_trace is called again, no instrumented call records anything and
\* add_reasoning changes nothing.
C11_EndTraceClosesTrace ==
    [][/\ (nOps' = nOps + 1 /\ last'.op = "end_trace" /\ current_trace_id # <<>>)
          => /\ last'.ret = current_trace_id
             /\ traces'[current_trace_id[1]].ended
             /\ current_trace_id' = <<>>
             /\ current_step' = <<>>
       /\ (current_trace_id = <<>> /\ current_trace_id' = <<>>)
          => UNCHANGED <<traces, files>>
       /\ (current_trace_id = <<>> /\ current_step = <<>> /\ nReason' = nReason + 1)
          => UNCHANGED <<current_trace_id, traces, current_step, files>>]_vars

C11_Witness ==
    /\ last.op = "call" /\ last.observed.kind = "ret"
    /\ current_trace_id = <<>> /\ current_step = <<>>
    /\ \E id \in DOMAIN traces :
          /\ traces[id].ended /\ Len(traces[id].steps) = 1
          /\ traces[id].steps[1].call < last.call

\* ---------------------------------------------------- dashboard vocabulary
\* the dashboard page's fetch('/api/trace/' + traceId)
Fetch(id) == Request("GET", "/api/trace/" \o id, <<>>, FALSE)
List == Request("GET", "/api/traces", <<>>, FALSE)
Submit(body) == Request("POST", "/api/traces", body, TRUE)

Status == reply.response.status
\* what the client reads out of the response body
Received == json_load(reply.response.body).val
\* the response is a complete 200 with a JSON body
IsJson200 == Status = 200 /\ reply.response.kind = "json" /\ reply.response.body # <<>>

\* end_trace returned id, its write succeeded, and the last request came after it
JustSaved(id) ==
    /\ last.op = "end_trace" /\ last.ret = <<id>>
    /\ saved = <<[id |-> id, how |-> "written"]>>
    /\ reply.at = nOps

\* every parseable record in the store has a text as its start_time
StartTimesAreTexts ==
    \A f \in DOMAIN files :
        (files[f] # <<>> /\ files[f][1].kind = "object" /\ "start_time" \in DOMAIN Stored(f))
            => IsText(Stored(f).start_time)

\* C12: after end_trace returned id X and the write succeeded, a fetch of
\* /api/trace/X is answered with 200 and a record equal in all fields to the
\* tracer's finalized in-memory trace X, and the list has a summary with id X.
C12_StoredTraceIsServed ==
    \A X \in DOMAIN traces :
        JustSaved(X)
            => /\ reply.req = Fetch(X) => (IsJson200 /\ Received = PyDict(traces[X]))
               /\ reply.req = List
                     => /\ IsJson200
                        /\ \E i \in 1..Len(Received.fields) : Received.fields[i].id = X

\* The fetch half of C12, and the list half while every start_time is a text.
StoredTraceIsFetched ==
    \A X \in DOMAIN traces :
        (JustSaved(X) /\ reply.req = Fetch(X))
            => (IsJson200 /\ Received = PyDict(traces[X]))

StoredTraceIsListed ==
    \A X \in DOMAIN traces :
        (JustSaved(X) /\ reply.req = List /\ StartTimesAreTexts)
            => /\ IsJson200
               /\ \E i \in 1..Len(Received.fields) : Received.fields[i].id = X

\* this step answers the request req
Answers(req) == nRequests' = nRequests + 1 /\ reply'.req = req
\* the last request was a submit that was answered with 201
Submitted == reply.req.method = "POST" /\ Status = 201
\* the record and the id of the last submit
SentBody == reply.req.body
SentId == reply.req.body[1].fields.id

\* C13: a record saved through the submit operation and then fetched by its id
\* comes back with status 200, equal in all fields to the record saved; so does
\* {"id": "t1", "name": "demo", "steps": []} fetched as /api/trace/t1.
C13_SubmitThenFetch ==
    [][(Submitted /\ Answers(Fetch(SentId)))
        => /\ reply'.response.status = 200
           /\ reply'.response.kind = "json"
           /\ reply'.response.body = SentBody]_vars

\* C13 for the ids that the path parsing gives back as they are.
PlainId(id) == LastSegment(UrlPath("/api/trace/" \o id)) = id

SubmitThenFetchPlainId ==
    [][(Submitted /\ PlainId(SentId) /\ Answers(Fetch(SentId)))
        => /\ reply'.response.status = 200
           /\ reply'.response.kind = "json"
           /\ reply'.response.body = SentBody]_vars

\* the files whose stored record carries this id
FilesWithId(store, id) ==
    {f \in DOMAIN store :
        LET loaded == json_load(store[f])
        IN  /\ loaded.ok /\ loaded.val.kind = "dict"
            /\ "id" \in DOMAIN loaded.val.fields
            /\ loaded.val.fields.id = id}
\* the summaries with this id in the list that this step sends
ListedWithId(id) ==
    LET sent == json_load(reply'.response.body).val.fields
    IN  {i \in 1..Len(sent) : sent[i].id = id}

\* the last request was a submit answered with 201 that found a record stored
\* under the same id, saved earlier
SubmittedAgain == Submitted /\ FilesWithId(reply.found, SentId) # {}

\* C14: after two records were saved under one id, one after the other, the store
\* has one record for the id, equal to the second; a fetch that follows returns
\* the second record and a list that follows has exactly one summary with the id.
C14_SecondSaveWins ==
    /\ [](SubmittedAgain
            => /\ FilesWithId(files, SentId) = {FileName(SentId)}
               /\ files[FileName(SentId)] = SentBody)
    /\ [][(SubmittedAgain /\ Answers(Fetch(SentId)))
            => (reply'.response.status = 200 /\ reply'.response.body = SentBody)]_vars
    /\ [][(SubmittedAgain /\ Answers(List))
            => /\ reply'.response.status = 200 /\ reply'.response.body # <<>>
               /\ Cardinality(ListedWithId(SentId)) = 1]_vars

\* C14 for ids that the path parsing gives back as they are, while every stored
\* start_time is a text.
SecondSaveWinsPlain ==
    /\ [](SubmittedAgain
            => /\ FilesWithId(files, SentId) = {FileName(SentId)}
               /\ files[FileName(SentId)] = SentBody)
    /\ [][(SubmittedAgain /\ PlainId(SentId) /\ Answers(Fetch(SentId)))
            => (reply'.response.status = 200 /\ reply'.response.body = SentBody)]_vars
    /\ [][(SubmittedAgain /\ StartTimesAreTexts /\ Answers(List))
            => /\ reply'.response.status = 200 /\ reply'.response.body # <<>>
               /\ Cardinality(ListedWithId(SentId)) = 1]_vars

\* the list request, also with a query
IsList(req) == req.method = "GET" /\ UrlPath(req.path) = "/api/traces"
\* the files of a store that hold a well-formed record: a JSON object
WellFormed(store) ==
    {f \in DOMAIN store :
        IsTraceFile(f) /\ store[f] # <<>> /\ store[f][1].kind = "object"}
\* the summary carries what the record of file f has
SummaryOf(sum, store, f) ==
    LET rec == json_load(store[f]).val.fields
    IN  \A k \in {"id", "name", "total_steps", "total_duration_ms"} :
            k \in DOMAIN rec => sum[k] = rec[k]
TextsIn(store) ==
    \A f \in WellFormed(store) :
        "start_time" \in DOMAIN store[f][1].fields => IsText(store[f][1].fields.start_time)
ListIsCatalog ==
    /\ IsJson200
    /\ LET store == reply.found
           sent == Received.fields
       IN  /\ Len(sent) = Cardinality(WellFormed(store))
           /\ \A f \in WellFormed(store) :
                 \E i \in 1..Len(sent) :
                     /\ SummaryOf(sent[i], store, f)
                     /\ \A j \in 1..Len(sent) : SummaryOf(sent[j], store, f) => j = i

\* C15: the list is answered with exactly one summary per well-formed stored
\* record, carrying that record's id, name, total_steps and total_duration_ms; a
\* malformed stored record is skipped and does not make the operation fail.
C15_ListIsCatalog == IsList(reply.req) => ListIsCatalog

\* C15 for the stores in which every start_time is a text.
ListIsCatalogOfTexts == (IsList(reply.req) /\ TextsIn(reply.found)) => ListIsCatalog

\* a list answered from a store with two well-formed records and a corrupt one
ListSkipsCorrupt ==
    /\ IsList(reply.req) /\ IsJson200
    /\ Cardinality(WellFormed(reply.found)) = 2 /\ Len(Received.fields) = 2
    /\ \E f \in DOMAIN reply.found : IsTraceFile(f) /\ reply.found[f] = <<>>

\* the fetch request, and the id the handler takes from its path
IsFetch(req) == req.method = "GET" /\ StartsWith(UrlPath(req.path), "/api/trace/")
FetchedId(req) == LastSegment(UrlPath(req.path))
\* the last request was a fetch of an id that has no file in the store
FetchedMissing == IsFetch(reply.req) /\ FileName(FetchedId(reply.req)) \notin DOMAIN reply.found

\* C16: a fetch of an id under which nothing was ever saved is answered with 404
\* and leaves the store as it is, and the request that follows is answered.
C16_MissingIs404 ==
    /\ [](FetchedMissing => (Status = 404 /\ reply.response.kind = "error"))
    /\ [][(nRequests' = nRequests + 1 /\ IsFetch(reply'.req)) => files' = files]_vars
    /\ [][(FetchedMissing /\ Answers(Request("GET", "/", <<>>, FALSE)))
            => reply'.response.status = 200]_vars
    /\ [][(FetchedMissing /\ nRequests' = nRequests + 1 /\ IsFetch(reply'.req)
              /\ FileName(FetchedId(reply'.req)) \in DOMAIN files
              /\ files[FileName(FetchedId(reply'.req))] # <<>>)
            => reply'.response.status = 200]_vars

C16_Witness ==
    /\ reply.req = Fetch("t1") /\ Status = 404
    /\ "trace_t1.json" \notin DOMAIN files
    /\ \E f \in DOMAIN files : files[f] # <<>>
    /\ nRequests = 2

IsSubmit(req) == req.method = "POST" /\ req.path = "/api/traces"

\* the body is valid JSON, an object, and has an id
HasId(body) ==
    /\ json_load(body).ok
    /\ json_load(body).val.kind = "dict"
    /\ "id" \in DOMAIN json_load(body).val.fields

\* C17: every list, fetch or submit request, whatever the store holds, gets one
\* complete response, with status 200, 201, 404 or 500.
C17_AlwaysAnswered ==
    (IsList(reply.req) \/ IsFetch(reply.req) \/ IsSubmit(reply.req))
        => Status \in {200, 201, 404, 500}

\* the acknowledgement {"ok": true, "id": id}
Ack(id) == <<JsonObject([ok |-> TRUE, id |-> id])>>

\* this step answers a submit that came with its Content-Length
AnswersSubmit == nRequests' = nRequests + 1 /\ IsSubmit(reply'.req) /\ reply'.req.length

\* C18: a submit whose body is not valid JSON or has no id is answered with 500
\* and creates or changes no stored record; a submit with a valid body that has
\* an id is answered with 201 and the body {"ok": true, "id": <that id>}.
C18_SubmitValidated ==
    [][AnswersSubmit
        => IF HasId(reply'.req.body)
           THEN /\ reply'.response.status = 201
                /\ reply'.response.body = Ack(reply'.req.body[1].fields.id)
           ELSE reply'.response.status = 500 /\ files' = files]_vars

\* C18 as amended: with a valid body that has an id, 201 and the acknowledgement
\* when the record is written, 500 when the file cannot be opened or written.
C18_SubmitValidatedOrFailed ==
    [][AnswersSubmit
        => IF HasId(reply'.req.body)
           THEN LET id == reply'.req.body[1].fields.id
                IN  \/ /\ reply'.response.status = 201
                       /\ reply'.response.body = Ack(id)
                       /\ files' = Put(files, FileName(id), reply'.req.body)
                    \/ /\ reply'.response.status = 500
                       /\ files' \in {files, Put(files, FileName(id), <<>>)}
           ELSE reply'.response.status = 500 /\ files' = files]_vars

C18_Witness ==
    /\ IsSubmit(reply.req) /\ reply.req.length /\ ~HasId(reply.req.body)
    /\ reply.req.body # <<>>
    /\ Status = 500
    /\ files = reply.found /\ \E f \in DOMAIN files : files[f] # <<>>

\* the operations the dashboard serves
Served(req) ==
    \/ req.method = "GET" /\ UrlPath(req.path) = "/"
    \/ IsList(req)
    \/ IsFetch(req)
    \/ IsSubmit(req)
Asked == reply.req.method # ""

\* C19: a request whose method and path are not a served operation is answered
\* with 404, under GET, under POST and under every other method.
C19_UnknownIs404 == (Asked /\ ~Served(reply.req)) => Status = 404

\* What does hold: 404 under GET and POST, 501 under every other method.
UnknownIs404Or501 ==
    (Asked /\ ~Served(reply.req))
        => /\ reply.response.kind = "error"
           /\ Status = IF reply.req.method \in {"GET", "POST"} THEN 404 ELSE 501

UnknownPostIs404 ==
    /\ reply.req.method = "POST" /\ reply.req.path = "/api/trace/t1"
    /\ HasId(reply.req.body)
    /\ Status = 404

\* this step recorded the return of value v: a successful step with no error and
\* output {"result": sanitize(v)}, and the caller received v
ReturnRecorded ==
    /\ Len(traces'[current_trace_id[1]].steps) = Len(ActiveSteps) + 1
    /\ Recorded.call = Top.call
    /\ Recorded.success = TRUE
    /\ Recorded.error = <<>>
    /\ _make_json_safe(Top.func.out.val).ok
    /\ Recorded.output = Put(EmptyMap, "result", _make_json_safe(Top.func.out.val).val)
    /\ last'.observed = Top.func.out

\* C20: when an instrumented call returns value v inside an active trace, the
\* recorded step has success true, no error and output {"result": sanitize(v)},
\* and the caller receives v itself, not the sanitized form.
C20_ReturnRecorded ==
    [][(Closing /\ current_trace_id # <<>> /\ Top.func.out.kind = "ret")
        => ReturnRecorded]_vars

\* What does hold: the same for a call that is not nested, made no instrumented call
\* and no end_trace of its own, and returns a value that sanitize can render.
PlainReturnRecorded ==
    [][(ClosingPlain /\ Top.func.out.kind = "ret" /\ _make_json_safe(Top.func.out.val).ok)
        => ReturnRecorded]_vars

\* a returned list holding an object is recorded with the object as a cut string
ReturnedObjectIsRecordedAsText ==
    /\ last.op = "call" /\ last.observed = Returned(ListV(<<ObjV("Selector", 200), IntV(7)>>))
    /\ stack = <<>> /\ current_trace_id # <<>> /\ ActiveSteps # <<>>
    /\ LastOf(ActiveSteps).call = last.call
    /\ LastOf(ActiveSteps).output
         = Put(EmptyMap, "result", ListV(<<StrV("Selector", StrLimit), IntV(7)>>))

\* every step record the tracer holds: in the trace table and in the store
StepRecords ==
    UNION {{traces[id].steps[i] : i \in 1..Len(traces[id].steps)} : id \in DOMAIN traces}
    \cup UNION {{Stored(f).steps[i] : i \in 1..Len(Stored(f).steps)} :
                    f \in {g \in DOMAIN files : files[g] # <<>>}}

\* C21: in every step record of every trace, error is non-null if and only if
\* success is false.
C21_ErrorIffFailed == \A r \in StepRecords : (r.error # <<>>) <=> ~r.success

C21_Witness ==
    \E f \in DOMAIN files :
        /\ files[f] # <<>> /\ Len(Stored(f).steps) = 2
        /\ \E i, j \in 1..2 :
              /\ ~Stored(f).steps[i].success /\ Stored(f).steps[i].error = <<"boom">>
              /\ Stored(f).steps[j].success /\ Stored(f).steps[j].error = <<>>

\* C22: in every step record, output has the key "result" if and only if the
\* wrapped call returned a value (success true); a step whose call ended by any
\* raised error or interruption has empty output and success false.
C22_ResultIffSucceeded ==
    \A r \in StepRecords :
        /\ ("result" \in DOMAIN r.output) <=> r.success
        /\ ~r.success => r.output = EmptyMap

\* What does hold: a record with a result is a success, a failed record has no output.
ResultOnlyIfSucceeded ==
    \A r \in StepRecords :
        /\ ("result" \in DOMAIN r.output) => r.success
        /\ ~r.success => r.output = EmptyMap

\* an interrupted call is on record as a success without output
InterruptedIsRecordedAsSuccess ==
    /\ last.op = "call" /\ last.observed = Interrupted
    /\ stack = <<>> /\ current_trace_id # <<>> /\ ActiveSteps # <<>>
    /\ LastOf(ActiveSteps).call = last.call
    /\ LastOf(ActiveSteps).success /\ LastOf(ActiveSteps).output = EmptyMap

\* this step is a wrapper handing over to its caller: after the finally clause or,
\* when the capture of the input raised, before the try
HandsOver == nOps' # nOps /\ last'.op = "call"
NothingRecorded == traces' = traces /\ files' = files /\ current_step' = <<>>

\* C23: an instrumented call executed while no trace is active still runs the
\* wrapped call and delivers its result or error to the caller, and records
\* nothing: trace table and store unchanged, open-step slot empty afterwards.
C23_NoTraceNoRecord ==
    [][(current_trace_id = <<>> /\ HandsOver)
        => (NothingRecorded /\ last'.observed = last'.produced)]_vars

\* What does hold: the same for a call that is not nested, makes no instrumented
\* call or end_trace of its own, and whose arguments and result sanitize can render.
PlainNoTraceNoRecord ==
    [][(current_trace_id = <<>> /\ Closing /\ Len(stack) = 1 /\ ~Top.inner
          /\ _make_json_safe(Top.func.out.val).ok)
        => (NothingRecorded /\ last'.observed = Top.func.out)]_vars

\* a call outside every trace returned its value and left no record
CallOutsideTraceLeftNothing ==
    /\ last.op = "call" /\ last.observed = Returned(IntV(42))
    /\ current_trace_id = <<>> /\ traces = EmptyMap /\ files = EmptyMap
    /\ current_step = <<>> /\ stack = <<>>

\* this step is add_reasoning called while no step is open and there is no closed
\* step of an active trace to take the text
ReasoningHasNoTarget ==
    /\ nReason' = nReason + 1
    /\ current_step = <<>>
    /\ (current_trace_id = <<>> \/ ActiveSteps = <<>>)

\* C24: add_reasoning called when no step is open and either no trace is active
\* or the active trace has no closed step changes nothing: no trace, step or
\* slot is modified, and nothing of the tracer keeps the text for a later step.
C24_ReasoningWithoutTargetIsNoOp ==
    [][ReasoningHasNoTarget
        => UNCHANGED <<current_trace_id, traces, current_step, files, stack>>]_vars

C24_Witness ==
    /\ last.op = "add_reasoning" /\ current_step = <<>> /\ current_trace_id = <<>>
    /\ \E id \in DOMAIN traces :
          /\ traces[id].steps # <<>>
          /\ \A i \in 1..Len(traces[id].steps) : traces[id].steps[i].reasoning = <<>>

\* this step is add_reasoning attaching its text to the most recently closed step
AttachesToClosed ==
    /\ nReason' = nReason + 1
    /\ current_step = <<>>
    /\ current_trace_id # <<>>
    /\ ActiveSteps # <<>>
ClosedReasoningBefore == LastOf(ActiveSteps).reasoning
ClosedReasoningAfter == LastOf(traces'[current_trace_id[1]].steps).reasoning

\* C25: add_reasoning(t) attaching to the most recently closed step follows the
\* accumulation rule: empty reasoning becomes exactly t, and only reasoning that
\* is already present is joined to t with a single line break.
C25_ClosedStepAccumulates ==
    [][AttachesToClosed
        => ClosedReasoningAfter = IF ClosedReasoningBefore = <<>>
                                  THEN last'.text
                                  ELSE ClosedReasoningBefore \o NL \o last'.text]_vars

\* What does hold: the text is joined with a line break, whatever was there.
ClosedStepAlwaysJoins ==
    [][AttachesToClosed
        => ClosedReasoningAfter = ClosedReasoningBefore \o NL \o last'.text]_vars

\* the first text attached to a closed step is on record behind a line break
FirstClosedReasoningStartsWithBreak ==
    /\ last.op = "add_reasoning" /\ current_step = <<>> /\ current_trace_id # <<>>
    /\ ActiveSteps # <<>>
    /\ LastOf(ActiveSteps).reasoning = NL \o last.text

\* this step is start_trace called while a trace is active
StartsOverActive == nStarted' = nStarted + 1 /\ current_trace_id # <<>>
\* a trace left behind by a start_trace: in the table, not finalized, not active
Abandoned(id) ==
    id \in DOMAIN traces /\ ~traces[id].ended /\ current_trace_id # <<id>>
FileOf(store, id) ==
    IF FileName(id) \in DOMAIN store THEN <<store[FileName(id)]>> ELSE <<>>

\* a trace left behind stays in the table as it is, is not written to the store
\* and does not become the active trace again
AbandonedStays ==
    \A id \in DOMAIN traces :
        Abandoned(id)
            => /\ id \in DOMAIN traces' /\ traces'[id] = traces[id]
               /\ current_trace_id' # <<id>>
               /\ FileOf(files', id) = FileOf(files, id)

\* the new trace B is new, empty and active, and the trace A it displaces stays
NewTraceDisplaces ==
    StartsOverActive
        => LET A == current_trace_id[1]
               B == current_trace_id'[1]
           IN  /\ current_trace_id' # <<>>
               /\ B \notin DOMAIN traces
               /\ traces'[B].steps = <<>> /\ ~traces'[B].ended
               /\ A \in DOMAIN traces' /\ traces'[A] = traces[A]

\* C26: start_trace called while trace A is active creates a new empty trace B
\* and makes it the active one; A stays in the trace table with its steps
\* unchanged, no later end_trace persists A, and every step closed afterwards is
\* appended to B only.
C26_StartOverActive == [][NewTraceDisplaces /\ AbandonedStays]_vars

\* What does hold: the same in every step that does not reuse a trace id.
StartOverActiveWhileIdsFresh ==
    [][IdsFresh' => (NewTraceDisplaces /\ AbandonedStays)]_vars

\* a trace left behind with a step, never stored, while another trace took a step
AbandonedWithStep ==
    \E id \in DOMAIN traces :
        /\ Abandoned(id) /\ Len(traces[id].steps) = 1
        /\ FileOf(files, id) = <<>>
        /\ current_trace_id # <<>> /\ Len(ActiveSteps) = 1

\* the step records of the table that are still in their place after this step
Kept ==
    {p \in AllSteps :
        /\ HasStep(p)
        /\ p[1] \in DOMAIN traces' /\ p[2] <= Len(traces'[p[1]].steps)
        /\ traces'[p[1]].steps[p[2]].call = StepAt(p).call}
StepAfter(p) == traces'[p[1]].steps[p[2]]

\* C27: once a step has been closed and appended to a trace, no later operation
\* changes any field of that step record.
C27_ClosedStepFrozen == [][\A p \in Kept : StepAfter(p) = StepAt(p)]_vars

\* C27 as amended: the only field of a closed step that changes is reasoning, and
\* only by add_reasoning called while no step is open, which extends the
\* reasoning of the most recently closed step of the active trace; a record
\* leaves its place only when start_trace replaces its trace under the same id.
C27_OnlyReasoningGrows ==
    [][\A p \in AllSteps :
          HasStep(p)
            => \/ p \in Kept /\ StepAfter(p) = StepAt(p)
               \/ /\ p \in Kept
                  /\ AttachesToClosed
                  /\ current_trace_id = <<p[1]>> /\ p[2] = Len(ActiveSteps)
                  /\ StepAfter(p) = [StepAt(p) EXCEPT !.reasoning = @ \o NL \o last'.text]
               \/ /\ p \notin Kept
                  /\ nStarted' = nStarted + 1 /\ current_trace_id' = <<p[1]>>
                  /\ traces'[p[1]].steps = <<>>]_vars

C27_Witness ==
    /\ last.op = "add_reasoning" /\ current_step = <<>> /\ current_trace_id # <<>>
    /\ Len(ActiveSteps) = 1
    /\ ActiveSteps[1].reasoning = <<"a">> \o NL \o last.text
    /\ ActiveSteps[1].success /\ "result" \in DOMAIN ActiveSteps[1].output

\* this step is end_trace on an active trace whose write to the store failed
EndsWithFailedWrite ==
    /\ nOps' = nOps + 1 /\ last'.op = "end_trace" /\ current_trace_id # <<>>
    /\ saved'[1].how # "written"

\* C28: if writing the trace to the store fails during end_trace, end_trace raises
\* no error: it returns the trace id, clears the active-trace and open-step
\* slots, and the finalized trace stays in the trace table with its totals.
C28_FailedWriteIsNotFatal ==
    [][EndsWithFailedWrite
        => LET id == current_trace_id[1]
           IN  /\ last'.observed = NoOutcome /\ last'.ret = <<id>>
               /\ current_trace_id' = <<>> /\ current_step' = <<>>
               /\ id \in DOMAIN traces'
               /\ traces'[id].ended
               /\ traces'[id].steps = traces[id].steps
               /\ TotalsHold(traces'[id])
               /\ (FileOf(files', id) = FileOf(files, id) \/ FileOf(files', id) = <<<<>>>>)]_vars

C28_Witness ==
    /\ last.op = "end_trace" /\ saved # <<>> /\ saved[1].how = "open_failed"
    /\ last.ret = <<saved[1].id>>
    /\ current_trace_id = <<>> /\ current_step = <<>>
    /\ traces[saved[1].id].ended /\ traces[saved[1].id].total_steps = 1
    /\ files = EmptyMap

\* the input a step should hold for a call of f: the receiver of a method as its
\* type name, every other positional argument and every keyword argument sanitized
ExpectedInput(f) ==
    LET pos == {i \in 1..Len(f.args) : f.bound => i > 1}
        keys == (IF f.bound THEN {"self"} ELSE {}) \cup {ArgKeys[i] : i \in pos}
                    \cup (DOMAIN f.kwargs)
    IN  [k \in keys |->
            IF k \in DOMAIN f.kwargs THEN _make_json_safe(f.kwargs[k]).val
            ELSE IF k = "self" THEN StrV(ObjectLabel(f.args[1]), 0)
            ELSE _make_json_safe(f.args[CHOOSE i \in pos : ArgKeys[i] = k]).val]

\* this step opens a step for a call: the capture of its input went through
Opens == nCalls' = nCalls + 1 /\ last'.op = "open"
Opened == stack'[Len(stack')].func

\* C29: a step opened for a call holds the sanitized value of every argument other
\* than an implicit receiver: for a plain function every positional argument,
\* the first included, and every keyword argument under its name; only a
\* method's receiver is recorded as a type-name string.
C29_InputHoldsEveryArgument ==
    [][Opens => current_step'[1].input = ExpectedInput(Opened)]_vars

\* What does hold: the same for a method and for a call without positional arguments.
MethodInputHoldsEveryArgument ==
    [][(Opens /\ (Opened.bound \/ Opened.args = <<>>))
        => current_step'[1].input = ExpectedInput(Opened)]_vars

\* the first positional argument of a plain function is on record as a receiver
FirstArgumentRecordedAsSelf ==
    /\ current_step # <<>> /\ stack # <<>> /\ Top.call = current_step[1].call
    /\ ~Top.func.bound /\ Top.func.args = <<IntV(5), StrV("q", 0)>>
    /\ current_step[1].input
         = Put(Put(EmptyMap, "self", StrV("int object", 0)), "arg_1", StrV("q", 0))

\* a method's input: receiver by type name, a dict argument with its key as text
MethodInputOnRecord ==
    /\ current_step # <<>> /\ stack # <<>> /\ Top.call = current_step[1].call
    /\ Top.func.bound
    /\ current_step[1].input
         = [self |-> StrV("Selector object", 0), arg_1 |-> IntV(7),
            limit |-> DictV(<<<<StrV("10", 0), StrV("Object of type Selector", 0)>>>>)]

\* the values the wrapper of a call in progress hands to sanitize
Sanitized(f) ==
    {f.args[i] : i \in 2..Len(f.args)} \cup {f.kwargs[k] : k \in DOMAIN f.kwargs}
        \cup (IF f.out.kind = "ret" THEN {f.out.val} ELSE {})
InProgress == {stack[i].func : i \in 1..Len(stack)}

\* C30: sanitize is total: it returns a value for every input, nested and
\* self-referencing sequences and mappings and objects whose rendering fails
\* included, and never raises; so a call that returns normally is never recorded
\* as failed because of its return value.
C30_SanitizeIsTotal ==
    /\ [](\A f \in InProgress : \A v \in Sanitized(f) : _make_json_safe(v).ok)
    /\ [][(ClosingPlain /\ Top.func.out.kind = "ret") => Recorded.success]_vars

\* a value with no reference to itself and no dict key whose rendering fails
RECURSIVE Renderable(_)
Renderable(v) ==
    CASE v.k = "cyclic" -> FALSE
      [] v.k = "list" -> \A i \in 1..Len(v.items) : Renderable(v.items[i])
      [] v.k = "dict" -> \A i \in 1..Len(v.items) :
                            v.items[i][1].k # "mute" /\ Renderable(v.items[i][2])
      [] OTHER -> TRUE

\* What does hold: sanitize returns for every such value, and a plain call that
\* returns one is recorded as a success.
SanitizeReturnsForRenderable ==
    /\ [](\A f \in InProgress : \A v \in Sanitized(f) :
            Renderable(v) => _make_json_safe(v).ok)
    /\ [][(ClosingPlain /\ Top.func.out.kind = "ret" /\ Renderable(Top.func.out.val))
            => Recorded.success]_vars

\* a call that returned a list containing itself is on record as failed
CyclicReturnRecordedAsFailure ==
    /\ last.op = "call" /\ last.produced = Returned(CyclicV)
    /\ last.observed = Raised(RecursionMsg)
    /\ current_trace_id # <<>> /\ ActiveSteps # <<>>
    /\ ~LastOf(ActiveSteps).success /\ LastOf(ActiveSteps).error = <<RecursionMsg>>

\* --------------------------------------------------------- sanitize claims
Given == last.produced.val
Got == last.observed.val
Sanitizes == last.op = "sanitize"

\* null, scalars, sequences and string-keyed mappings, and nothing else
RECURSIVE JsonShaped(_)
JsonShaped(r) ==
    CASE r.k \in {"none", "str", "int", "float", "bool"} -> TRUE
      [] r.k = "list" -> \A i \in 1..Len(r.items) : JsonShaped(r.items[i])
      [] r.k = "dict" -> \A i \in 1..Len(r.items) :
                            r.items[i][1].k = "str" /\ JsonShaped(r.items[i][2])
      [] OTHER -> FALSE

\* r is what the rules give for v
FollowsRules(v, r) ==
    /\ v.k = "none" => r = NoneV
    /\ v.k \in {"str", "int", "float", "bool"} => r = v
    /\ v.k \in {"list", "tuple"}
          => /\ r.k = "list" /\ Len(r.items) = Len(v.items)
             /\ \A i \in 1..Len(v.items) :
                   _make_json_safe(v.items[i]).ok
                     /\ r.items[i] = _make_json_safe(v.items[i]).val
    /\ v.k = "dict"
          => /\ r.k = "dict"
             /\ \A i \in 1..Len(v.items) :
                   /\ Str(v.items[i][1]).ok /\ _make_json_safe(v.items[i][2]).ok
                   /\ \E j \in 1..Len(r.items) : r.items[j][1] = Str(v.items[i][1]).val
             /\ \A j \in 1..Len(r.items) :
                   \E i \in 1..Len(v.items) :
                       /\ r.items[j][1] = Str(v.items[i][1]).val
                       /\ r.items[j][2] = _make_json_safe(v.items[i][2]).val
             /\ \A i, j \in 1..Len(r.items) : r.items[i][1] = r.items[j][1] => i = j
    /\ JsonShaped(r)

\* C31: sanitize follows its recursive rules for every input: null to null,
\* scalars unchanged, a sequence to the sequence of its sanitized elements, a
\* mapping to the mapping from the string forms of its keys to its sanitized
\* values; the result holds only null, scalars, sequences and string-keyed
\* mappings.
C31_SanitizeFollowsRules ==
    Sanitizes => (last.observed.kind = "ret" /\ FollowsRules(Given, Got))

\* What does hold: the same for every value sanitize returns for.
SanitizeFollowsRulesWhenItReturns ==
    (Sanitizes /\ Renderable(Given))
        => (last.observed.kind = "ret" /\ FollowsRules(Given, Got))

\* two keys with one string form end as one member, with the later value
KeysCollapsed ==
    /\ Sanitizes
    /\ Given = DictV(<<<<IntV(1), IntV(7)>>, <<StrV("1", 0), ObjV("Selector", 200)>>>>)
    /\ Got = DictV(<<<<StrV("1", 0), StrV("Selector", StrLimit)>>>>)

C33_IdsAreFresh ==
    [][(nStarted' = nStarted + 1)
        => /\ current_trace_id'[1] \notin DOMAIN traces
           /\ FileName(current_trace_id'[1]) \notin DOMAIN files]_vars

\* a finalized and stored trace has been replaced in memory by a new, empty one
FinalizedTraceReplaced ==
    /\ last.op = "start_trace" /\ current_trace_id # <<>>
    /\ FileName(current_trace_id[1]) \in DOMAIN files
    /\ files[FileName(current_trace_id[1])] # <<>>
    /\ Len(Stored(FileName(current_trace_id[1])).steps) = 1
    /\ ActiveSteps = <<>> /\ ~traces[current_trace_id[1]].ended

\* this step closes a call B made from inside another instrumented call, B having
\* made no instrumented call or end_trace of its own
ClosingInner == Closing /\ Len(stack) >= 2 /\ ~Top.inner /\ current_trace_id # <<>>
\* this step closes a call A inside which an instrumented call was made
ClosingOuter == Closing /\ Top.inner
\* C34: when instrumented call B runs to completion inside instrumented call A in
\* an active trace, B's step is appended to the trace when B closes, the
\* open-step slot is empty from then on while A is still running, and A's step
\* is never appended.
C34_NestedCallOrphansOuter ==
    /\ [][ClosingInner
            => /\ Len(traces'[current_trace_id[1]].steps) = Len(ActiveSteps) + 1
               /\ Recorded.call = Top.call
               /\ current_step' = <<>>]_vars
    /\ [][(stack # <<>> /\ current_step = <<>> /\ nCalls' = nCalls)
            => current_step' = <<>>]_vars
    /\ [][ClosingOuter
            => \A id \in DOMAIN traces' : \A i \in 1..Len(traces'[id].steps) :
                  traces'[id].steps[i].call # Top.call]_vars

C34_Witness ==
    /\ last.op = "call" /\ last.produced.kind = "ret"
    /\ last.observed = Raised(AttrMsg)
    /\ stack = <<>> /\ current_step = <<>> /\ current_trace_id # <<>>
    /\ Len(ActiveSteps) = 1
    /\ ActiveSteps[1].call = last.call + 1

\* this step is a call of add_reasoning
Reasons == nReason' = nReason + 1
\* the two steps agree on every field but the reasoning
SameButReasoning(a, b) == [a EXCEPT !.reasoning = b.reasoning] = b
\* the two traces have the same fields and as many steps, which agree on every
\* field but the reasoning
SameButReasonings(s, t) ==
    /\ [s EXCEPT !.steps = t.steps] = t
    /\ Len(s.steps) = Len(t.steps)
    /\ \A i \in 1..Len(s.steps) : SameButReasoning(s.steps[i], t.steps[i])

\* C37: add_reasoning changes at most the reasoning of one step, the open step
\* or else the last closed step of the active trace: the slots, the store, the
\* number of steps of every trace, every other field of every step, every other
\* step and every other trace are as before.
C37_ReasoningFrame ==
    [][Reasons =>
        /\ current_trace_id' = current_trace_id
        /\ files' = files
        /\ (current_step' = <<>>) <=> (current_step = <<>>)
        /\ current_step # <<>> =>
               /\ SameButReasoning(current_step'[1], current_step[1])
               /\ traces' = traces
        /\ DOMAIN traces' = DOMAIN traces
        /\ \A id \in DOMAIN traces :
               /\ SameButReasonings(traces'[id], traces[id])
               /\ <<id>> # current_trace_id => traces'[id] = traces[id]
               /\ \A i \in 1..(Len(traces[id].steps) - 1) :
                      traces'[id].steps[i] = traces[id].steps[i]]_vars

\* reasoning attached to the second of two closed steps, the first left as it was
C37_Witness ==
    /\ last.op = "add_reasoning" /\ current_step = <<>> /\ current_trace_id # <<>>
    /\ Len(ActiveSteps) = 2
    /\ ActiveSteps[1].reasoning = <<>>
    /\ ActiveSteps[2].reasoning = NL \o last.text

\* the fetch of this id from the store that the last request found
Refetched(id) == do_GET(Fetch(id), reply.found, <<>>)
\* the fetch of a listed id is answered 200 with a record that carries the id
Fetchable(id) ==
    LET r == Refetched(id)
    IN  /\ r.status = 200 /\ r.kind = "json"
        /\ json_load(r.body).ok
        /\ json_load(r.body).val.kind = "dict"
        /\ Get(json_load(r.body).val.fields, "id", "") = id
Listed == {Received.fields[i].id : i \in 1..Len(Received.fields)}

\* C38: every id in a summary of a list answered with 200 can be fetched from
\* the same store: /api/trace/{id} is answered 200 with a record of that id.
C38_ListedIsFetchable ==
    (IsList(reply.req) /\ IsJson200) => \A id \in Listed : Fetchable(id)

\* C38 for the ids that the path parsing gives back as they are.
ListedPlainIsFetchable ==
    (IsList(reply.req) /\ IsJson200)
        => \A id \in Listed : PlainId(id) => Fetchable(id)

\* a list of two summaries, one of them with an id whose fetch is answered 404
ListedButNotFound ==
    /\ IsList(reply.req) /\ IsJson200
    /\ Cardinality(Listed) = 2
    /\ \E id \in Listed : Refetched(id).status = 404
    /\ \E id \in Listed : Fetchable(id)

\* this step closes a call whose step is still the one in the slot
ClosingOwn ==
    /\ Closing /\ current_trace_id # <<>>
    /\ current_step # <<>> /\ current_step[1].call = Top.call

\* C39: the input of a step is taken from the arguments as they are when the
\* step opens, and the step appended at close holds that same input, whatever
\* the body did to the lists and dicts it was given.
C39_InputIsSnapshot ==
    /\ [][Opens => current_step'[1].input
                     = _capture_input(Opened.args, Opened.kwargs).val]_vars
    /\ [][(current_step # <<>> /\ current_step' # <<>>
             /\ current_step'[1].call = current_step[1].call)
            => current_step'[1].input = current_step[1].input]_vars
    /\ [][ClosingOwn => Recorded.input
                     = _capture_input(Top.func.args, Top.func.kwargs).val]_vars

\* a step on record for a call that was given a list with a list inside, which
\* its body changed: the input on record is the list as it was given
C39_Witness ==
    /\ last.op = "call" /\ current_trace_id # <<>> /\ ActiveSteps # <<>>
    /\ LastOf(ActiveSteps).call = last.call
    /\ LastOf(ActiveSteps).input
          = [self |-> StrV("int object", 0),
             arg_1 |-> ListV(<<ListV(<<IntV(1)>>), IntV(2)>>)]
    /\ Touched(ListV(<<ListV(<<IntV(1)>>), IntV(2)>>))
          = ListV(<<ListV(<<IntV(1), Mark>>), IntV(2), Mark>>)

\* the text that the save in progress is writing
BeingWritten == json_dump(PyDict(traces[saved[1].id])).text
\* the ids in the list that this step sends
ListedNext ==
    LET sent == json_load(reply'.response.body).val.fields
    IN  {sent[i].id : i \in 1..Len(sent)}

\* C35: a fetch served while the record of its id is being written is answered
\* with the complete record the file held before, with the complete new record,
\* or with 404, never with a partial record or with no response; a list served
\* meanwhile still has the trace if its file held a complete record before.
C35_ReadersSeeCompleteRecords ==
    /\ [][(Writing /\ Answers(Fetch(saved[1].id)))
            => \/ reply'.response.status = 404
               \/ /\ reply'.response.status = 200 /\ reply'.response.body # <<>>
                  /\ reply'.response.body \in {last.text, BeingWritten}]_vars
    /\ [][(Writing /\ last.text # <<>> /\ nRequests' = nRequests + 1 /\ IsList(reply'.req))
            => /\ reply'.response.status = 200 /\ reply'.response.body # <<>>
               /\ saved[1].id \in ListedNext]_vars

\* a fetch of the trace being written got no response
FetchDuringSaveGotNothing ==
    /\ Writing /\ reply.at = nOps
    /\ reply.req = Fetch(saved[1].id)
    /\ Status = 0

\* a list served during the second save of an id came without the trace, whose
\* file held a complete record before
ListDuringSaveDroppedTrace ==
    /\ Writing /\ reply.at = nOps /\ last.text # <<>>
    /\ IsList(reply.req) /\ Status = 200
    /\ saved[1].id \notin Listed

\* What does hold when every save runs to its end: a request served while no
\* save is in progress finds no file that was opened for writing and left empty.
ReadersBetweenSavesSeeWholeFiles ==
    [][(Idle /\ nRequests' = nRequests + 1)
        => \A f \in DOMAIN reply'.found : reply'.found[f] # <<>>]_vars

\* what the call of thread t records and hands to its caller when it is the only
\* call in progress
Alone(t) ==
    LET f == stack[t].func
        opened == [XRayStep(stack[t].call, f.name, f.step_type)
                      EXCEPT !.input = _capture_input(f.args, f.kwargs).val]
        tried == WrapperTry(<<opened>>, f.out)
    IN  [step |-> to_dict(StepEnd(tried.slot[1], f.elapsed)), obs |-> tried.obs]
\* a call that, made alone, is recorded and hands over what the function produced
WorksAlone(t) ==
    /\ _capture_input(stack[t].func.args, stack[t].func.kwargs).ok
    /\ Alone(t).obs = stack[t].func.out
\* the record is that of thread t's call, the duration aside
RecordOf(t, rec) == [rec EXCEPT !.duration_ms = 0] = [Alone(t).step EXCEPT !.duration_ms = 0]
TheTrace == traces[CHOOSE id \in DOMAIN traces : TRUE]

\* C36: when two threads have each run one instrumented call on the same tracer
\* in one trace, calls that work when made alone, then under every interleaving
\* both callers got their own results and the trace has exactly two steps, one
\* per call, each with its own call's name, input, output, reasoning and outcome.
C36_ThreadsKeepApart ==
    (Joined /\ \A t \in Threads : WorksAlone(t))
        => /\ \A t \in Threads : stack[t].obs = stack[t].func.out
           /\ Len(TheTrace.steps) = 2
           /\ \A t \in Threads :
                 \E i \in 1..2 : /\ RecordOf(t, TheTrace.steps[i])
                                  /\ ~RecordOf(t, TheTrace.steps[3 - i])

\* two calls that return normally: one thread's caller got AttributeError and
\* the trace holds one step, with the name of one call and the output of the other
ThreadsCrossed ==
    /\ Joined /\ \A t \in Threads : WorksAlone(t) /\ stack[t].func.out.kind = "ret"
    /\ \E t \in Threads : stack[t].obs = Raised(AttrMsg)
    /\ Len(TheTrace.steps) = 1
    /\ \E t \in Threads :
          /\ TheTrace.steps[1].name = stack[t].func.name
          /\ TheTrace.steps[1].output # Alone(t).step.output

\* one call made after the other had ended: both on record, each with its own
ThreadsInTurn ==
    /\ Joined /\ \A t \in Threads : WorksAlone(t)
    /\ stack[1].func # stack[2].func
    /\ \A t \in Threads : stack[t].obs = stack[t].func.out
    /\ Len(TheTrace.steps) = 2
    /\ RecordOf(1, TheTrace.steps[1]) /\ RecordOf(2, TheTrace.steps[2])

====
